---- MODULE Spec2Model ----
(***************************************************************************)
(* Campus canteen food management system.                                  *)
(*                                                                         *)
(* The browser client is src/cfms/frontend/cfms_frontend/src/App.tsx (the  *)
(* latest revision, lines 519-1077).  Every async handler of App is split  *)
(* at its `await fetch(...)`: a Start action sends the request, a Finish   *)
(* action runs the rest of the handler on the response.  The Django        *)
(* backend is not part of the sources; its operations (authenticate,       *)
(* listFoodItems, listFeedback, computeAnalytics, createFoodItem,          *)
(* createFeedback) are modelled from the specification and are the         *)
(* definitions whose names start with Serve or that Serve uses.            *)
(*                                                                         *)
(* Not modelled: imageFile / image_url (optional upload), lastUpdated (a   *)
(* wall-clock display string), CSS and markup.                             *)
(***************************************************************************)
EXTENDS Integers, Sequences, FiniteSets, TLC

VARIABLES
    \* ---- record store (backend) ----
    foodStore,          \* sequence of FoodItem, in insertion order
    feedbackStore,      \* sequence of FeedbackEntry, in insertion order
    clock,              \* backend clock, the source of created_at
    audit,              \* history: which session created which record
    \* ---- browser ----
    cookie,             \* the session identity the browser attaches to requests
    net,                \* requests of the app in flight, and their responses
    \* ---- App state (useState, App.tsx 606-636) ----
    items, feedbacks, analytics,
    name, category, quantity,
    feedbackMessage, feedbackRating, feedbackFoodId,
    filterSearch, filterCategory, filterFrom, filterTo,
    loading, submitting, feedbackSubmitting,
    error, feedbackStatus,
    role, username, password, currentUser, loginError, loginLoading,
    \* ---- other clients of the backend ----
    otherClient,        \* the last request of another client, with its response
    \* ---- bounds of a run ----
    clicks,             \* user actions on the App so far
    others              \* requests of other clients so far

vars == <<foodStore, feedbackStore, clock, audit, cookie, net,
          items, feedbacks, analytics, name, category, quantity,
          feedbackMessage, feedbackRating, feedbackFoodId,
          filterSearch, filterCategory, filterFrom, filterTo,
          loading, submitting, feedbackSubmitting, error, feedbackStatus,
          role, username, password, currentUser, loginError, loginLoading,
          otherClient, clicks, others>>

(***************************************************************************)
(* Bounds of the model.                                                    *)
(***************************************************************************)
MaxItems    == 2    \* food items the store may hold
MaxFeedback == 2    \* feedback entries the store may hold
MaxInFlight == 2    \* requests of one kind the App has in flight at once
MaxClicks   == 2    \* user actions on the App in one run
MaxOthers   == 1    \* requests of other clients in one run

(***************************************************************************)
(* Values.                                                                 *)
(***************************************************************************)
NoRole   == "none"                    \* role === null
NullData == <<>>                      \* readJsonSafely returned null
NoFood   == 0                         \* food_item_id: null
NaN      == -1000                     \* Number(s) of a non-numeric string

Anonymous   == [username |-> "", role |-> NoRole]   \* request without a session
NoSetCookie == [username |-> "", role |-> "keep"]   \* response sets no cookie

\* Number(s) / int(s): the numeric strings of the model, by value.
NumberOf(s) ==
    CASE s = "-1" -> -1 [] s = "0" -> 0 [] s = "1" -> 1 [] s = "2" -> 2
      [] s = "3" -> 3 [] s = "4" -> 4 [] s = "5" -> 5 [] s = "6" -> 6
      [] OTHER -> NaN

\* String(n) of a small number, as React renders <option value={item.id}>.
StringOf(n) ==
    CASE n = 0 -> "0" [] n = 1 -> "1" [] n = 2 -> "2" [] n = 3 -> "3"
      [] n = 4 -> "4" [] n = 5 -> "5" [] n = 6 -> "6" [] OTHER -> "?"

\* String.prototype.trim, on the space character.
RECURSIVE Trim(_)
Trim(s) ==
    IF Len(s) = 0 THEN s
    ELSE IF SubSeq(s, 1, 1) = " " THEN Trim(SubSeq(s, 2, Len(s)))
    ELSE IF SubSeq(s, Len(s), Len(s)) = " " THEN Trim(SubSeq(s, 1, Len(s) - 1))
    ELSE s

\* data?.f ?? d
Get(data, f, d) == IF f \in DOMAIN data THEN data[f] ELSE d

\* queryString without the upper date bound.
queryStringNoDateTo(params) ==
    [k \in {k \in DOMAIN params \ {"date_to"} : Trim(params[k]) # ""} |-> Trim(params[k])]

\* queryString that keeps blank values as they are.
queryStringNoTrim(params) ==
    [k \in {k \in DOMAIN params : params[k] # ""} |-> params[k]]

\* queryString(params): only the keys whose trimmed value is non-empty, trimmed.
queryString(params) ==
    [k \in {k \in DOMAIN params : Trim(params[k]) # ""} |-> Trim(params[k])]

NoFilters == [search |-> "", category |-> "", date_from |-> "", date_to |-> ""]

SeqToSet(s) == {s[i] : i \in 1..Len(s)}

Min(a, b) == IF a <= b THEN a ELSE b

(***************************************************************************)
(* Backend, modelled from the specification (sections 3, 4 and 7).         *)
(***************************************************************************)

\* The provisioned accounts: one per role.
Credentials ==
    { [username |-> "student", password |-> "student123", role |-> "student"],
      [username |-> "admin",   password |-> "admin123",   role |-> "admin"] }

\* authenticate(username, password): the identity of the matching credential
\* record, Anonymous when there is none.
Authenticate(u, p) ==
    LET match == {c \in Credentials : c.username = u /\ c.password = p}
    IN  IF match = {} THEN Anonymous
        ELSE LET c == CHOOSE c \in match : TRUE
             IN  [username |-> c.username, role |-> c.role]

ErrorResp(status, kind) ==
    [ok |-> FALSE, status |-> status, data |-> [error |-> kind], setCookie |-> NoSetCookie]

OkResp(status, data) ==
    [ok |-> TRUE, status |-> status, data |-> data, setCookie |-> NoSetCookie]

\* Lower-case form of one character of the model's alphabet.
LowerChar(c) ==
    CASE c = "D" -> "d" [] c = "L" -> "l" [] c = "R" -> "r" [] OTHER -> c

RECURSIVE ToLower(_)
ToLower(s) ==
    IF Len(s) = 0 THEN s
    ELSE LowerChar(SubSeq(s, 1, 1)) \o ToLower(SubSeq(s, 2, Len(s)))

\* s contains sub as a substring.
Includes(s, sub) ==
    \E i \in 1..(Len(s) - Len(sub) + 1) : SubSeq(s, i, i + Len(sub) - 1) = sub

\* An option of the filter; an absent option is the empty one.
QGet(q, k) == Get(q, k, "")

\* date_from <= t <= date_to, each bound inclusive, an empty bound unbounded.
DateMatches(t, q) ==
    /\ QGet(q, "date_from") = "" \/ NumberOf(QGet(q, "date_from")) <= t
    /\ QGet(q, "date_to") = "" \/ t <= NumberOf(QGet(q, "date_to"))

SearchMatches(texts, q) ==
    \/ QGet(q, "search") = ""
    \/ \E x \in texts : Includes(ToLower(x), ToLower(QGet(q, "search")))

FoodMatches(it, q) ==
    /\ SearchMatches({it.name}, q)
    /\ QGet(q, "category") = "" \/ it.category = QGet(q, "category")
    /\ DateMatches(it.created_at, q)

\* listFoodItems(filter)
ListFoodItems(store, q) == SelectSeq(store, LAMBDA it : FoodMatches(it, q))

\* The category of the food item a feedback entry refers to ("" when none).
FoodCategory(store, id) ==
    IF \E i \in 1..Len(store) : store[i].id = id
    THEN (CHOOSE it \in SeqToSet(store) : it.id = id).category
    ELSE ""

FeedbackMatches(store, f, q) ==
    /\ SearchMatches({f.student_name, f.message, f.food_item_name}, q)
    /\ QGet(q, "category") = "" \/ FoodCategory(store, f.food_item_id) = QGet(q, "category")
    /\ DateMatches(f.created_at, q)

\* listFeedback(filter), for an admin session
ListFeedback(store, fbs, q) == SelectSeq(fbs, LAMBDA f : FeedbackMatches(store, f, q))

(***************************************************************************)
(* computeAnalytics(filter)                                                *)
(***************************************************************************)
TopN == 5

RECURSIVE SumRatings(_)
SumRatings(fs) == IF fs = <<>> THEN 0 ELSE Head(fs).rating + SumRatings(Tail(fs))

\* Position of a character in the ordering of the model's alphabet.
Alphabet == " DLRacdefgiklmnorstuy"
CharRank(c) ==
    IF \E i \in 1..Len(Alphabet) : SubSeq(Alphabet, i, i) = c
    THEN CHOOSE i \in 1..Len(Alphabet) : SubSeq(Alphabet, i, i) = c
    ELSE 0

\* a < b in lexicographic order
RECURSIVE StrBefore(_, _)
StrBefore(a, b) ==
    IF Len(b) = 0 THEN FALSE
    ELSE IF Len(a) = 0 THEN TRUE
    ELSE LET x == CharRank(SubSeq(a, 1, 1))
             y == CharRank(SubSeq(b, 1, 1))
         IN  IF x # y THEN x < y
             ELSE StrBefore(SubSeq(a, 2, Len(a)), SubSeq(b, 2, Len(b)))

\* The group of the entries that refer to food name n: its mean is the exact
\* fraction num / den.
Group(rows, n) ==
    LET mine == SelectSeq(rows, LAMBDA f : f.food_item_id # NoFood /\ f.food_item_name = n)
    IN  [food_name |-> n,
         avg_rating |-> [num |-> SumRatings(mine), den |-> Len(mine)],
         count |-> Len(mine)]

\* g comes before h: higher mean, then higher count, then smaller name.
RanksBefore(g, h) ==
    LET gm == g.avg_rating.num * h.avg_rating.den
        hm == h.avg_rating.num * g.avg_rating.den
    IN  \/ gm > hm
        \/ gm = hm /\ g.count > h.count
        \/ gm = hm /\ g.count = h.count /\ StrBefore(g.food_name, h.food_name)

RECURSIVE SortGroups(_)
SortGroups(gs) ==
    IF gs = {} THEN <<>>
    ELSE LET first == CHOOSE g \in gs : \A h \in gs \ {g} : RanksBefore(g, h)
         IN  <<first>> \o SortGroups(gs \ {first})

RatingKeys == {"1", "2", "3", "4", "5"}

ComputeAnalytics(store, fbs, q) ==
    LET rows   == ListFeedback(store, fbs, q)
        names  == {rows[i].food_item_name : i \in {j \in 1..Len(rows) : rows[j].food_item_id # NoFood}}
        sorted == SortGroups({Group(rows, n) : n \in names})
    IN  [top_rated |-> SubSeq(sorted, 1, Min(TopN, Len(sorted))),
         rating_distribution |->
            [k \in RatingKeys |-> Len(SelectSeq(rows, LAMBDA f : f.rating = NumberOf(k)))]]

(***************************************************************************)
(* createFoodItem / createFeedback / authenticate, as request handlers.    *)
(* req is [kind, cookie, query, body]; t is the creation time.  The result *)
(* is the response and the stores after the request.                       *)
(***************************************************************************)
NextId(store) ==
    1 + (IF store = <<>> THEN 0
         ELSE CHOOSE n \in {store[i].id : i \in 1..Len(store)} :
                \A i \in 1..Len(store) : store[i].id <= n)

Unchanged(resp) ==
    [resp |-> resp, food |-> foodStore, feedback |-> feedbackStore, audit |-> audit]

ServeLogin(req) ==
    LET who == Authenticate(Get(req.body, "username", ""), Get(req.body, "password", ""))
    IN  IF who = Anonymous
        THEN Unchanged(ErrorResp(401, "InvalidCredentials"))
        ELSE Unchanged([ok |-> TRUE, status |-> 200,
                        data |-> [role |-> who.role, username |-> who.username],
                        setCookie |-> who])

ValidFoodBody(body) ==
    /\ Get(body, "name", "") # ""
    /\ NumberOf(Get(body, "quantity", "")) # NaN
    /\ NumberOf(Get(body, "quantity", "")) >= 1

\* Variant: an item whose name is stored already is updated in place.
ServeCreateFoodUpsert(req, t) ==
    IF req.cookie.role = NoRole THEN Unchanged(ErrorResp(401, "AuthError"))
    ELSE IF req.cookie.role # "admin" THEN Unchanged(ErrorResp(403, "Forbidden"))
    ELSE IF ~ValidFoodBody(req.body) THEN Unchanged(ErrorResp(400, "ValidationError"))
    ELSE IF \E i \in 1..Len(foodStore) : foodStore[i].name = req.body.name
    THEN LET i == CHOOSE j \in 1..Len(foodStore) : foodStore[j].name = req.body.name
             item == [foodStore[i] EXCEPT !.category = Get(req.body, "category", ""),
                                          !.quantity = NumberOf(req.body.quantity),
                                          !.created_at = t]
         IN  [resp |-> OkResp(201, item),
              food |-> [foodStore EXCEPT ![i] = item],
              feedback |-> feedbackStore,
              audit |-> audit]
    ELSE LET item == [id |-> NextId(foodStore),
                      name |-> req.body.name,
                      category |-> Get(req.body, "category", ""),
                      quantity |-> NumberOf(req.body.quantity),
                      created_at |-> t]
         IN  [resp |-> OkResp(201, item),
              food |-> Append(foodStore, item),
              feedback |-> feedbackStore,
              audit |-> audit \cup {[entity |-> "food", id |-> item.id, by |-> req.cookie]}]

ServeCreateFood(req, t) ==
    IF req.cookie.role = NoRole THEN Unchanged(ErrorResp(401, "AuthError"))
    ELSE IF req.cookie.role # "admin" THEN Unchanged(ErrorResp(403, "Forbidden"))
    ELSE IF ~ValidFoodBody(req.body) THEN Unchanged(ErrorResp(400, "ValidationError"))
    ELSE LET item == [id |-> NextId(foodStore),
                      name |-> req.body.name,
                      category |-> Get(req.body, "category", ""),
                      quantity |-> NumberOf(req.body.quantity),
                      created_at |-> t]
         IN  [resp |-> OkResp(201, item),
              food |-> Append(foodStore, item),
              feedback |-> feedbackStore,
              audit |-> audit \cup {[entity |-> "food", id |-> item.id, by |-> req.cookie]}]

ValidFeedbackBody(body) ==
    /\ Len(Get(body, "message", "")) >= 3
    /\ Get(body, "rating", NaN) \in 1..5

FoodExists(store, id) == \E i \in 1..Len(store) : store[i].id = id

FoodName(store, id) ==
    IF FoodExists(store, id)
    THEN (CHOOSE it \in SeqToSet(store) : it.id = id).name
    ELSE ""

ServeCreateFeedback(req, t) ==
    LET ref == Get(req.body, "food_item_id", NoFood)
    IN  IF req.cookie.role = NoRole THEN Unchanged(ErrorResp(401, "AuthError"))
        ELSE IF req.cookie.role # "student" THEN Unchanged(ErrorResp(403, "Forbidden"))
        ELSE IF ~ValidFeedbackBody(req.body) THEN Unchanged(ErrorResp(400, "ValidationError"))
        ELSE IF ref # NoFood /\ ~FoodExists(foodStore, ref) THEN Unchanged(ErrorResp(404, "NotFound"))
        ELSE LET entry == [id |-> NextId(feedbackStore),
                           student_name |-> req.cookie.username,
                           food_item_id |-> ref,
                           food_item_name |-> FoodName(foodStore, ref),
                           rating |-> req.body.rating,
                           message |-> req.body.message,
                           created_at |-> t]
             IN  [resp |-> OkResp(201, entry),
                  food |-> foodStore,
                  feedback |-> Append(feedbackStore, entry),
                  audit |-> audit \cup {[entity |-> "feedback", id |-> entry.id, by |-> req.cookie]}]

ServeListFood(req) ==
    Unchanged(OkResp(200, [items |-> ListFoodItems(foodStore, req.query)]))

ServeListFeedback(req) ==
    IF req.cookie.role = NoRole THEN Unchanged(ErrorResp(401, "AuthError"))
    ELSE IF req.cookie.role # "admin" THEN Unchanged(ErrorResp(403, "Forbidden"))
    ELSE Unchanged(OkResp(200, [feedbacks |-> ListFeedback(foodStore, feedbackStore, req.query)]))

ServeAnalytics(req) ==
    Unchanged(OkResp(200, ComputeAnalytics(foodStore, feedbackStore, req.query)))

(***************************************************************************)
(* exportCsv / exportPdf(entityKind, filter): the rows of the list under   *)
(* the same filter, in the list's order, each with the fields of the       *)
(* export; the PDF has the same rows.  generated is the time of the export.*)
(***************************************************************************)
FoodCsvHeader == <<"name", "category", "quantity", "created_at">>
FeedbackCsvHeader == <<"student_name", "food_item_name", "rating", "message", "created_at">>

ExportKinds == {"exportFoodCsv", "exportFoodPdf", "exportFeedbackCsv", "exportFeedbackPdf"}
FoodExports == {"exportFoodCsv", "exportFoodPdf"}

Row(rec, header) == [i \in 1..Len(header) |-> rec[header[i]]]

FoodRows(store, q) ==
    LET rows == ListFoodItems(store, q)
    IN  [i \in 1..Len(rows) |-> Row(rows[i], FoodCsvHeader)]

\* Variant: the feedback export newest first.
FeedbackRowsNewestFirst(store, fbs, q) ==
    LET rows == ListFeedback(store, fbs, q)
    IN  [i \in 1..Len(rows) |-> Row(rows[Len(rows) + 1 - i], FeedbackCsvHeader)]

FeedbackRows(store, fbs, q) ==
    LET rows == ListFeedback(store, fbs, q)
    IN  [i \in 1..Len(rows) |-> Row(rows[i], FeedbackCsvHeader)]

ServeExport(req, t) ==
    IF req.kind \in FoodExports
    THEN Unchanged(OkResp(200, [header |-> FoodCsvHeader,
                                rows |-> FoodRows(foodStore, req.query),
                                generated |-> t]))
    ELSE IF req.cookie.role = NoRole THEN Unchanged(ErrorResp(401, "AuthError"))
    ELSE IF req.cookie.role # "admin" THEN Unchanged(ErrorResp(403, "Forbidden"))
    ELSE Unchanged(OkResp(200, [header |-> FeedbackCsvHeader,
                                rows |-> FeedbackRows(foodStore, feedbackStore, req.query),
                                generated |-> t]))

Handle(req, t) ==
    CASE req.kind = "login"          -> ServeLogin(req)
      [] req.kind = "createFood"     -> ServeCreateFood(req, t)
      [] req.kind = "createFeedback" -> ServeCreateFeedback(req, t)
      [] req.kind = "listFood"       -> ServeListFood(req)
      [] req.kind = "listFeedback"   -> ServeListFeedback(req)
      [] req.kind = "analytics"      -> ServeAnalytics(req)
      [] req.kind \in ExportKinds    -> ServeExport(req, t)

(***************************************************************************)
(* The network between the App and the backend.                            *)
(* A message is a request of the App, then the same request with the       *)
(* response to it: st is "sent" (no response yet), "done" (resp is the     *)
(* response) or "failed" (fetch rejected: no response at all).             *)
(* History kept in a message: sentAs, the role the App had when it sent    *)
(* the request; by, who answered ("backend" or "fault"); changed, whether  *)
(* the backend stored anything while handling it.                          *)
(***************************************************************************)
NoResp == [ok |-> FALSE, status |-> 0, data |-> NullData, setCookie |-> NoSetCookie]

\* The ids free for one more request of a kind (at most MaxInFlight of a kind
\* are in flight).
FreeIds(kind) == (1..MaxInFlight) \ {m.id : m \in {x \in net : x.kind = kind}}

Lowest(S) == CHOOSE i \in S : \A j \in S : i <= j

\* fetch(url + query, {credentials: 'include', body}): the cookie goes along.
Request(kind, ck, as, q, body) ==
    [id |-> Lowest(FreeIds(kind)), kind |-> kind, cookie |-> ck, sentAs |-> as,
     query |-> q, body |-> body, st |-> "sent", resp |-> NoResp,
     by |-> "", changed |-> FALSE]

CanSend(kinds) == \A k \in kinds : FreeIds(k) # {}

\* What a response can be without the backend having produced it: a gateway
\* error page, an empty body, a JSON body that is not the endpoint's.
FaultResponses(kind) ==
    { [ok |-> FALSE, status |-> 502, data |-> NullData, setCookie |-> NoSetCookie],
      [ok |-> TRUE,  status |-> 200, data |-> NullData, setCookie |-> NoSetCookie] }
    \cup (IF kind = "login"
          THEN {[ok |-> TRUE, status |-> 200,
                 data |-> [role |-> "staff", username |-> "staff"],
                 setCookie |-> NoSetCookie]}
          ELSE {})

(***************************************************************************)
(* Backend steps.                                                          *)
(***************************************************************************)
\* Time passes between two creations: each record gets a later created_at.
ClockAfter(r) ==
    IF r.food # foodStore \/ r.feedback # feedbackStore THEN clock + 1 ELSE clock

\* The backend handles one request of the App, atomically.
Serve(m) ==
    /\ m \in net /\ m.st = "sent"
    /\ LET r == Handle(m, clock)
           served == [m EXCEPT !.st = "done", !.resp = r.resp, !.by = "backend",
                               !.changed = (r.food # foodStore \/ r.feedback # feedbackStore)]
       IN  /\ r.food # foodStore => Len(r.food) <= MaxItems
           /\ r.feedback # feedbackStore => Len(r.feedback) <= MaxFeedback
           /\ foodStore' = r.food
           /\ feedbackStore' = r.feedback
           /\ audit' = r.audit
           /\ clock' = ClockAfter(r)
           /\ net' = (net \ {m}) \cup {served}
    /\ UNCHANGED <<otherClient, clicks, others, cookie, items, feedbacks, analytics, name, category, quantity,
                   feedbackMessage, feedbackRating, feedbackFoodId,
                  filterSearch, filterCategory, filterFrom, filterTo,
                   loading, submitting, feedbackSubmitting, error, feedbackStatus,
                   role, username, password, currentUser, loginError, loginLoading>>

\* The request never reaches the backend: fetch rejects, or something in
\* between answers in the backend's place.
Fault(m) ==
    /\ m \in net /\ m.st = "sent"
    /\ \/ net' = (net \ {m}) \cup {[m EXCEPT !.st = "failed", !.by = "fault"]}
       \/ \E r \in FaultResponses(m.kind) :
             net' = (net \ {m}) \cup {[m EXCEPT !.st = "done", !.resp = r, !.by = "fault"]}
    /\ UNCHANGED <<otherClient, clicks, others, foodStore, feedbackStore, clock, audit,
                   cookie, items, feedbacks, analytics, name, category, quantity,
                   feedbackMessage, feedbackRating, feedbackFoodId,
                  filterSearch, filterCategory, filterFrom, filterTo,
                   loading, submitting, feedbackSubmitting, error, feedbackStatus,
                   role, username, password, currentUser, loginError, loginLoading>>

\* Requests of other clients of the backend (another browser, a script):
\* any endpoint, any session, any body.  The ones of the model:
StudentSession == [username |-> "student", role |-> "student"]
AdminSession   == [username |-> "admin", role |-> "admin"]

OtherRequest(kind, session, q, body) ==
    /\ others < MaxOthers /\ others' = others + 1
    /\ LET req == [id |-> 0, kind |-> kind, cookie |-> session, sentAs |-> "other",
                   query |-> q, body |-> body, st |-> "sent", resp |-> NoResp,
                   by |-> "", changed |-> FALSE, during |-> FALSE]
           r == Handle(req, clock)
       IN  /\ r.food # foodStore => Len(r.food) <= MaxItems
           /\ r.feedback # feedbackStore => Len(r.feedback) <= MaxFeedback
           /\ foodStore' = r.food
           /\ feedbackStore' = r.feedback
           /\ audit' = r.audit
           /\ clock' = ClockAfter(r)
           /\ otherClient' = [req EXCEPT !.st = "done", !.resp = r.resp, !.by = "backend",
                                          !.changed = (r.food # foodStore \/ r.feedback # feedbackStore),
                                          !.during = \E o \in net : o.kind = kind /\ o.st = "sent"]
    /\ UNCHANGED <<clicks, cookie, net, items, feedbacks, analytics, name, category, quantity,
                   feedbackMessage, feedbackRating, feedbackFoodId,
                  filterSearch, filterCategory, filterFrom, filterTo,
                   loading, submitting, feedbackSubmitting, error, feedbackStatus,
                   role, username, password, currentUser, loginError, loginLoading>>

\* The backend handles the request of another client that is on its way.
AnswerOther ==
    /\ otherClient # NullData /\ otherClient.st = "sent"
    /\ LET r == Handle(otherClient, clock)
       IN  /\ foodStore' = r.food
           /\ feedbackStore' = r.feedback
           /\ audit' = r.audit
           /\ clock' = ClockAfter(r)
           /\ otherClient' = [otherClient EXCEPT
                                 !.st = "done", !.resp = r.resp, !.by = "backend",
                                 !.changed = (r.food # foodStore \/ r.feedback # feedbackStore)]
    /\ UNCHANGED <<clicks, others, cookie, net, items, feedbacks, analytics,
                   name, category, quantity,
                   feedbackMessage, feedbackRating, feedbackFoodId,
                   filterSearch, filterCategory, filterFrom, filterTo,
                   loading, submitting, feedbackSubmitting, error, feedbackStatus,
                   role, username, password, currentUser, loginError, loginLoading>>

(***************************************************************************)
(* App.tsx: the handlers.                                                  *)
(***************************************************************************)
FetchFailed == "Failed to fetch"      \* message of the TypeError fetch rejects with

\* loadItems, try block: the message of the Error thrown, "" when none is.
loadItemsThrows(m) ==
    IF m.st = "failed" THEN FetchFailed
    ELSE IF ~m.resp.ok THEN Get(m.resp.data, "error", "Unable to load food items.")
    ELSE IF m.resp.data = NullData THEN "Backend returned an invalid response."
    ELSE ""

loadFeedbacksThrows(m) ==
    IF m.st = "failed" THEN FetchFailed
    ELSE IF ~m.resp.ok THEN Get(m.resp.data, "error", "Unable to load feedback.")
    ELSE ""

loadAnalyticsThrows(m) ==
    IF m.st = "failed" THEN FetchFailed
    ELSE IF ~m.resp.ok THEN Get(m.resp.data, "error", "Unable to load analytics.")
    ELSE IF m.resp.data = NullData THEN "Invalid analytics response."
    ELSE ""

StatusText(n) ==
    CASE n = 400 -> "400" [] n = 401 -> "401" [] n = 403 -> "403"
      [] n = 404 -> "404" [] n = 502 -> "502" [] OTHER -> "?"

loginFallback(status) ==
    IF status = 404
    THEN "Login endpoint not found. Restart backend and verify latest code is running."
    ELSE "Login failed (HTTP " \o StatusText(status) \o ")."

\* Variant: any role a successful response carries is taken.
handleLoginThrowsAnyRole(m) ==
    IF m.st = "failed" THEN FetchFailed
    ELSE IF ~m.resp.ok THEN Get(m.resp.data, "error", loginFallback(m.resp.status))
    ELSE IF m.resp.data = NullData \/ Get(m.resp.data, "role", "") = ""
         THEN "Invalid login response from backend."
    ELSE ""

handleLoginThrows(m) ==
    IF m.st = "failed" THEN FetchFailed
    ELSE IF ~m.resp.ok THEN Get(m.resp.data, "error", loginFallback(m.resp.status))
    ELSE IF \/ m.resp.data = NullData
            \/ Get(m.resp.data, "role", "") \notin {"student", "admin"}
         THEN "Invalid login response from backend."
    ELSE ""

handleSubmitThrows(m) ==
    IF m.st = "failed" THEN FetchFailed
    ELSE IF ~m.resp.ok THEN Get(m.resp.data, "error", "Unable to create item.")
    ELSE IF m.resp.data = NullData THEN "Backend returned an invalid response."
    ELSE ""

handleFeedbackSubmitThrows(m) ==
    IF m.st = "failed" THEN FetchFailed
    ELSE IF ~m.resp.ok THEN Get(m.resp.data, "error", "Unable to submit feedback.")
    ELSE ""

\* The request bodies the handlers build.
loginPayload(u, p) == [username |-> Trim(u), password |-> p]

\* Variant: the name and the category of the form change places.
itemPayloadSwapped(n, c, q) == [name |-> c, category |-> n, quantity |-> q]

itemPayload(n, c, q) == [name |-> n, category |-> c, quantity |-> q]

\* Variant: the body also names the student, from the client's state.
feedbackPayloadNamed(msg, rating, foodId) ==
    [message |-> msg,
     rating |-> NumberOf(rating),
     food_item_id |-> IF foodId # "" THEN NumberOf(foodId) ELSE NoFood,
     student_name |-> currentUser]

feedbackPayload(msg, rating, foodId) ==
    [message |-> msg,
     rating |-> NumberOf(rating),
     food_item_id |-> IF foodId # "" THEN NumberOf(foodId) ELSE NoFood]

\* Variant: a rating select with one more option.
RatingOptionsWide == {"6", "5", "4", "3", "2", "1"}

\* Variant: a free food item field instead of a select of the loaded items.
FoodOptionsFree == {"", "1", "2"}

\* The options of the forms' <select> elements.
CategoryOptions == {"morning", "lunch", "dinner"}
RatingOptions   == {"5", "4", "3", "2", "1"}
FoodOptions     == {""} \cup {StringOf(items[i].id) : i \in 1..Len(items)}

\* Variant: the quantity input without its min attribute.
itemFormValidNoMin(n, q) == n # "" /\ q # "" /\ NumberOf(q) # NaN

\* Constraint validation of the forms: the browser fires onSubmit only when
\* every input satisfies its attributes.
itemFormValid(n, q) ==
    /\ n # ""                                      \* name: required
    /\ q # "" /\ NumberOf(q) # NaN /\ NumberOf(q) >= 1   \* required type=number min=1

feedbackFormValid(msg) == msg # "" /\ Len(msg) >= 3   \* required minLength=3

loginFormValid(u, p) == u # "" /\ p # ""             \* both required

\* Variant: no student portal, every logged-in user gets the admin portal.
viewNoStudent == IF role = NoRole THEN "login" ELSE "admin"

\* Variant: the category is compared without regard to case.
filteredItemsAnyCase(its, activeCategory, searchTerm) ==
    LET query == ToLower(Trim(searchTerm))
    IN  SelectSeq(its, LAMBDA item :
           /\ activeCategory = "All" \/ ToLower(item.category) = ToLower(activeCategory)
           /\ \/ Len(query) = 0
              \/ Includes(ToLower(item.name), query)
              \/ Includes(ToLower(item.category), query))

\* filteredItems of the first revision of App, which filtered the loaded
\* items itself: the items of the active category that match the search.
filteredItems(its, activeCategory, searchTerm) ==
    LET query == ToLower(Trim(searchTerm))
    IN  SelectSeq(its, LAMBDA item :
           /\ activeCategory = "All" \/ item.category = activeCategory
           /\ \/ Len(query) = 0
              \/ Includes(ToLower(item.name), query)
              \/ Includes(ToLower(item.category), query))

\* What App renders: the login panel, the student portal or the admin portal.
view ==
    IF role = NoRole THEN "login"
    ELSE IF role = "student" THEN "student"
    ELSE "admin"

\* ---- loadItems / loadFeedbacks / loadAnalytics ----
\* const filters = useMemo(() => ({search, category, date_from, date_to}))
filters ==
    [search |-> filterSearch, category |-> filterCategory,
     date_from |-> filterFrom, date_to |-> filterTo]

\* The fetch of each load, for the filters f of the render that calls it.
loadItemsRequest(ck, as, f) ==
    Request("listFood", ck, as, queryString(f), NullData)
loadFeedbacksRequest(ck, as, f) ==
    Request("listFeedback", ck, as, queryString(f), NullData)
loadAnalyticsRequest(ck, as, f) ==
    Request("analytics", ck, as, queryString(f), NullData)

\* Variant: the effect loads for every logged-in role.
adminLoadsAnyRole(ck, as, f) ==
    IF as # NoRole
    THEN {loadFeedbacksRequest(ck, as, f), loadAnalyticsRequest(ck, as, f)}
    ELSE {}

\* useEffect [role, filters]: loadFeedbacks() and loadAnalytics() when the
\* role is admin; the requests it sends.
adminLoads(ck, as, f) ==
    IF as = "admin"
    THEN {loadFeedbacksRequest(ck, as, f), loadAnalyticsRequest(ck, as, f)}
    ELSE {}

\* Student view, Refresh button: onClick={loadItems} disabled={loading}
RefreshStudent ==
    /\ clicks < MaxClicks /\ clicks' = clicks + 1
    /\ view = "student" /\ ~loading
    /\ CanSend({"listFood"})
    /\ loading' = TRUE
    /\ error' = ""
    /\ net' = net \cup {loadItemsRequest(cookie, role, filters)}
    /\ UNCHANGED <<otherClient, others, foodStore, feedbackStore, clock, audit, cookie,
                   items, feedbacks, analytics, name, category, quantity,
                   feedbackMessage, feedbackRating, feedbackFoodId,
                  filterSearch, filterCategory, filterFrom, filterTo,
                   submitting, feedbackSubmitting, feedbackStatus,
                   role, username, password, currentUser, loginError, loginLoading>>

\* Admin view, Refresh button: loadItems(); loadFeedbacks(); loadAnalytics();
\* disabled={loading || submitting}
RefreshAdmin ==
    /\ clicks < MaxClicks /\ clicks' = clicks + 1
    /\ view = "admin" /\ ~loading /\ ~submitting
    /\ CanSend({"listFood", "listFeedback", "analytics"})
    /\ loading' = TRUE
    /\ error' = ""
    /\ net' = net \cup {loadItemsRequest(cookie, role, filters)}
                   \cup adminLoads(cookie, role, filters)
    /\ UNCHANGED <<otherClient, others, foodStore, feedbackStore, clock, audit, cookie,
                   items, feedbacks, analytics, name, category, quantity,
                   feedbackMessage, feedbackRating, feedbackFoodId,
                  filterSearch, filterCategory, filterFrom, filterTo,
                   submitting, feedbackSubmitting, feedbackStatus,
                   role, username, password, currentUser, loginError, loginLoading>>

\* Variant: the loaded items are added to the list instead of replacing it.
itemsAfterLoadAdded(data) == items \o Get(data, "items", <<>>)

\* Admin view, filters-grid: onChange of one of the four filter inputs sets
\* its state; after the render, useEffect [filters] calls loadItems() and
\* useEffect [role, filters] calls loadFeedbacks() and loadAnalytics().
FilterFields == {"filterSearch", "filterCategory", "filterFrom", "filterTo"}
FilterCategoryOptions == {"", "morning", "lunch", "dinner"}

SetFilter(field, v) ==
    /\ clicks < MaxClicks /\ clicks' = clicks + 1
    /\ view = "admin"
    /\ field \in FilterFields
    /\ field = "filterCategory" => v \in FilterCategoryOptions
    /\ CanSend({"listFood", "listFeedback", "analytics"})
    /\ filterSearch' = IF field = "filterSearch" THEN v ELSE filterSearch
    /\ filterCategory' = IF field = "filterCategory" THEN v ELSE filterCategory
    /\ filterFrom' = IF field = "filterFrom" THEN v ELSE filterFrom
    /\ filterTo' = IF field = "filterTo" THEN v ELSE filterTo
    /\ filters' # filters
    /\ loading' = TRUE
    /\ error' = ""
    /\ net' = net \cup {loadItemsRequest(cookie, role, filters')}
                   \cup adminLoads(cookie, role, filters')
    /\ UNCHANGED <<otherClient, others, foodStore, feedbackStore, clock, audit, cookie,
                   items, feedbacks, analytics, name, category, quantity,
                   feedbackMessage, feedbackRating, feedbackFoodId,
                   submitting, feedbackSubmitting, feedbackStatus,
                   role, username, password, currentUser, loginError, loginLoading>>

\* Variant: the link without the filters.
exportUrlNoFilters(base) == [base |-> base, query |-> <<>>]

\* const exportUrlWithFilters = (base) => `${base}${queryString(filters)}`
exportUrlWithFilters(base) == [base |-> base, query |-> queryString(filters)]

\* Admin view, export-row: <a href={exportUrlWithFilters(URL)} target="_blank">.
\* The browser opens the link in a new tab: a GET with the cookie; the
\* response goes to that tab, the App's state does not change.  The admin
\* opens one export at a time.
ExportClick(base) ==
    /\ view = "admin"
    /\ base \in ExportKinds
    /\ ~\E m \in net : m.kind \in ExportKinds
    /\ LET url == exportUrlWithFilters(base)
       IN  net' = net \cup {Request(url.base, cookie, role, url.query, NullData)}
    /\ UNCHANGED <<otherClient, clicks, others, foodStore, feedbackStore, clock, audit, cookie,
                   items, feedbacks, analytics, name, category, quantity,
                   feedbackMessage, feedbackRating, feedbackFoodId,
                   filterSearch, filterCategory, filterFrom, filterTo,
                   loading, submitting, feedbackSubmitting, error, feedbackStatus,
                   role, username, password, currentUser, loginError, loginLoading>>

\* The new tab has received the export (or the error page).
ExportShown(m) ==
    /\ m \in net /\ m.kind \in ExportKinds /\ m.st # "sent"
    /\ net' = net \ {m}
    /\ UNCHANGED <<otherClient, clicks, others, foodStore, feedbackStore, clock, audit, cookie,
                   items, feedbacks, analytics, name, category, quantity,
                   feedbackMessage, feedbackRating, feedbackFoodId,
                   filterSearch, filterCategory, filterFrom, filterTo,
                   loading, submitting, feedbackSubmitting, error, feedbackStatus,
                   role, username, password, currentUser, loginError, loginLoading>>

\* setItems(data.items ?? [])
itemsAfterLoad(data) == Get(data, "items", <<>>)

\* Variant: a load that failed is sent again.
LoadItemsFinishRetry(m) ==
    /\ m \in net /\ m.kind = "listFood" /\ m.st # "sent"
    /\ IF loadItemsThrows(m) = ""
       THEN /\ items' = itemsAfterLoad(m.resp.data)
            /\ error' = error
            /\ net' = net \ {m}
       ELSE /\ items' = items
            /\ error' = loadItemsThrows(m)
            /\ net' = (net \ {m}) \cup {[m EXCEPT !.st = "sent", !.resp = NoResp, !.by = ""]}
    /\ loading' = FALSE
    /\ UNCHANGED <<otherClient, clicks, others, foodStore, feedbackStore, clock, audit, cookie,
                   feedbacks, analytics, name, category, quantity,
                   feedbackMessage, feedbackRating, feedbackFoodId,
                  filterSearch, filterCategory, filterFrom, filterTo,
                   submitting, feedbackSubmitting, feedbackStatus,
                   role, username, password, currentUser, loginError, loginLoading>>

LoadItemsFinish(m) ==
    /\ m \in net /\ m.kind = "listFood" /\ m.st # "sent"
    /\ net' = net \ {m}
    /\ IF loadItemsThrows(m) = ""
       THEN /\ items' = itemsAfterLoad(m.resp.data)
            /\ error' = error
       ELSE /\ items' = items
            /\ error' = loadItemsThrows(m)
    /\ loading' = FALSE
    /\ UNCHANGED <<otherClient, clicks, others, foodStore, feedbackStore, clock, audit, cookie,
                   feedbacks, analytics, name, category, quantity,
                   feedbackMessage, feedbackRating, feedbackFoodId,
                  filterSearch, filterCategory, filterFrom, filterTo,
                   submitting, feedbackSubmitting, feedbackStatus,
                   role, username, password, currentUser, loginError, loginLoading>>

LoadFeedbacksFinish(m) ==
    /\ m \in net /\ m.kind = "listFeedback" /\ m.st # "sent"
    /\ net' = net \ {m}
    /\ IF loadFeedbacksThrows(m) = ""
       THEN /\ feedbacks' = Get(m.resp.data, "feedbacks", <<>>)
            /\ error' = error
       ELSE /\ feedbacks' = feedbacks
            /\ error' = loadFeedbacksThrows(m)
    /\ UNCHANGED <<otherClient, clicks, others, foodStore, feedbackStore, clock, audit, cookie,
                   items, analytics, name, category, quantity,
                   feedbackMessage, feedbackRating, feedbackFoodId,
                  filterSearch, filterCategory, filterFrom, filterTo,
                   loading, submitting, feedbackSubmitting, feedbackStatus,
                   role, username, password, currentUser, loginError, loginLoading>>

\* Variant: analytics once shown are kept.
analyticsAfterLoadKept(data) ==
    IF analytics.top_rated # <<>> THEN analytics
    ELSE [top_rated |-> Get(data, "top_rated", <<>>),
          rating_distribution |-> Get(data, "rating_distribution", <<>>)]

\* setAnalytics({top_rated: data.top_rated ?? [],
\*               rating_distribution: data.rating_distribution ?? {}})
analyticsAfterLoad(data) ==
    [top_rated |-> Get(data, "top_rated", <<>>),
     rating_distribution |-> Get(data, "rating_distribution", <<>>)]

LoadAnalyticsFinish(m) ==
    /\ m \in net /\ m.kind = "analytics" /\ m.st # "sent"
    /\ net' = net \ {m}
    /\ IF loadAnalyticsThrows(m) = ""
       THEN /\ analytics' = analyticsAfterLoad(m.resp.data)
            /\ error' = error
       ELSE /\ analytics' = analytics
            /\ error' = loadAnalyticsThrows(m)
    /\ UNCHANGED <<otherClient, clicks, others, foodStore, feedbackStore, clock, audit, cookie,
                   items, feedbacks, name, category, quantity,
                   feedbackMessage, feedbackRating, feedbackFoodId,
                  filterSearch, filterCategory, filterFrom, filterTo,
                   loading, submitting, feedbackSubmitting, feedbackStatus,
                   role, username, password, currentUser, loginError, loginLoading>>

\* ---- Rating Dashboard (admin view) ----
\* The bars of the Rating Distribution chart, top to bottom.
chartKeys == <<"5", "4", "3", "2", "1">>

\* The count of the bar of the opposite star.
chartValueReversed(dist, key) == Get(dist, StringOf(6 - NumberOf(key)), 0)

\* A mean rounded to a whole number, in tenths.
toFixedWhole(avg) == 10 * ((2 * avg.num + avg.den) \div (2 * avg.den))

\* item.avg_rating.toFixed(1), in tenths: the mean num / den rounded to one
\* decimal place.
toFixed(avg) == (20 * avg.num + avg.den) \div (2 * avg.den)

\* The lines of the chart, last group first.
topRatedLinesReversed(top) ==
    [i \in 1..Len(top) |->
        [key |-> top[Len(top) + 1 - i].food_name,
         shown |-> (20 * top[Len(top) + 1 - i].avg_rating.num + top[Len(top) + 1 - i].avg_rating.den)
                      \div (2 * top[Len(top) + 1 - i].avg_rating.den),
         count |-> top[Len(top) + 1 - i].count]]

\* The Top Rated Meals chart: one line for each group, in the order of
\* analytics.top_rated, with its name, its mean to one decimal and its count.
topRatedLines(top) ==
    [i \in 1..Len(top) |->
        [key |-> top[i].food_name, shown |-> toFixed(top[i].avg_rating),
         count |-> top[i].count]]

\* analytics.rating_distribution[key] ?? 0
chartValue(dist, key) == Get(dist, key, 0)

\* Object.values(analytics.rating_distribution).reduce((sum, n) => sum + n, 0)
RECURSIVE SumValues(_, _)
SumValues(dist, keys) ==
    IF keys = {} THEN 0
    ELSE LET k == CHOOSE x \in keys : TRUE
         IN  dist[k] + SumValues(dist, keys \ {k})

chartTotal(dist) == SumValues(dist, DOMAIN dist)

\* ---- handleLogin / handleLogout ----
\* The user fills the login form and submits it (the button is disabled
\* while loginLoading; the form is rendered only while role is null).
HandleLoginStart(u, p) ==
    /\ clicks < MaxClicks /\ clicks' = clicks + 1
    /\ view = "login" /\ ~loginLoading
    /\ loginFormValid(u, p)
    /\ CanSend({"login"})
    /\ username' = u /\ password' = p
    /\ loginError' = ""
    /\ loginLoading' = TRUE
    /\ net' = net \cup {Request("login", cookie, role, <<>>, loginPayload(u, p))}
    /\ UNCHANGED <<otherClient, others, foodStore, feedbackStore, clock, audit, cookie,
                   items, feedbacks, analytics, name, category, quantity,
                   feedbackMessage, feedbackRating, feedbackFoodId,
                  filterSearch, filterCategory, filterFrom, filterTo,
                   loading, submitting, feedbackSubmitting, error, feedbackStatus,
                   role, currentUser>>

\* The browser stores the cookie a response sets.
cookieAfter(m) ==
    IF m.st = "done" /\ m.resp.setCookie # NoSetCookie THEN m.resp.setCookie ELSE cookie

HandleLoginFinish(m) ==
    /\ m \in net /\ m.kind = "login" /\ m.st # "sent"
    /\ cookie' = cookieAfter(m)
    /\ IF handleLoginThrows(m) = ""
       THEN /\ role' = m.resp.data.role
            /\ currentUser' = Get(m.resp.data, "username", Trim(username))
            /\ password' = ""
            /\ loginError' = loginError
       ELSE /\ loginError' = handleLoginThrows(m)
            /\ UNCHANGED <<role, currentUser, password>>
    /\ loginLoading' = FALSE
    \* useEffect [role, filters] after the render with the new role
    /\ role' = "admin" => CanSend({"listFeedback", "analytics"})
    /\ net' = (net \ {m}) \cup adminLoads(cookie', role', filters)
    /\ UNCHANGED <<otherClient, clicks, others, foodStore, feedbackStore, clock, audit,
                   items, feedbacks, analytics, name, category, quantity,
                   feedbackMessage, feedbackRating, feedbackFoodId,
                  filterSearch, filterCategory, filterFrom, filterTo,
                   loading, submitting, feedbackSubmitting, error, feedbackStatus,
                   username>>

\* Logout button of the student and of the admin view.
HandleLogout ==
    /\ clicks < MaxClicks /\ clicks' = clicks + 1
    /\ view \in {"student", "admin"}
    /\ role' = NoRole
    /\ currentUser' = ""
    /\ loginError' = ""
    /\ feedbackStatus' = ""
    /\ UNCHANGED <<otherClient, others, foodStore, feedbackStore, clock, audit, cookie, net,
                   items, feedbacks, analytics, name, category, quantity,
                   feedbackMessage, feedbackRating, feedbackFoodId,
                  filterSearch, filterCategory, filterFrom, filterTo,
                   loading, submitting, feedbackSubmitting, error,
                   username, password, loginLoading>>

\* ---- handleSubmit (admin item form) ----
ItemInputs ==
    { <<"Rice", "lunch", "2">>, <<"Dal", "morning", "1">>,
      <<"", "morning", "1">>, <<"Dal", "dinner", "0">>, <<"Dal", "dinner", "">> }

HandleSubmitStart(n, c, q) ==
    /\ clicks < MaxClicks /\ clicks' = clicks + 1
    /\ view = "admin" /\ ~submitting
    /\ c \in CategoryOptions
    /\ itemFormValid(n, q)
    /\ CanSend({"createFood"})
    /\ name' = n /\ category' = c /\ quantity' = q
    /\ submitting' = TRUE
    /\ error' = ""
    /\ net' = net \cup {Request("createFood", cookie, role, <<>>, itemPayload(n, c, q))}
    /\ UNCHANGED <<otherClient, others, foodStore, feedbackStore, clock, audit, cookie,
                   items, feedbacks, analytics,
                   feedbackMessage, feedbackRating, feedbackFoodId,
                  filterSearch, filterCategory, filterFrom, filterTo,
                   loading, feedbackSubmitting, feedbackStatus,
                   role, username, password, currentUser, loginError, loginLoading>>

\* Variant: the item of the form is put into the list whatever the response.
itemsAfterSubmitOptimistic(m) ==
    IF m.st # "failed" /\ m.resp.data # NullData THEN <<m.resp.data>> \o items
    ELSE <<[name |-> name, category |-> category, quantity |-> quantity]>> \o items

\* setItems((previous) => [data as FoodItem, ...previous]), reached only
\* when nothing was thrown before it.
itemsAfterSubmit(m) ==
    IF handleSubmitThrows(m) = "" THEN <<m.resp.data>> \o items ELSE items

\* Variant: setSubmitting(false) at the end of the try block instead of in
\* finally.
HandleSubmitFinishNoFinally(m) ==
    /\ m \in net /\ m.kind = "createFood" /\ m.st # "sent"
    /\ net' = net \ {m}
    /\ items' = itemsAfterSubmit(m)
    /\ IF handleSubmitThrows(m) = ""
       THEN /\ name' = "" /\ category' = "morning" /\ quantity' = "1"
            /\ error' = error
            /\ submitting' = FALSE
       ELSE /\ error' = handleSubmitThrows(m)
            /\ UNCHANGED <<name, category, quantity, submitting>>
    /\ UNCHANGED <<otherClient, clicks, others, foodStore, feedbackStore, clock, audit, cookie,
                   feedbacks, analytics,
                   feedbackMessage, feedbackRating, feedbackFoodId,
                  filterSearch, filterCategory, filterFrom, filterTo,
                   loading, feedbackSubmitting, feedbackStatus,
                   role, username, password, currentUser, loginError, loginLoading>>

HandleSubmitFinish(m) ==
    /\ m \in net /\ m.kind = "createFood" /\ m.st # "sent"
    /\ net' = net \ {m}
    /\ items' = itemsAfterSubmit(m)
    /\ IF handleSubmitThrows(m) = ""
       THEN /\ name' = "" /\ category' = "morning" /\ quantity' = "1"
            /\ error' = error
       ELSE /\ error' = handleSubmitThrows(m)
            /\ UNCHANGED <<name, category, quantity>>
    /\ submitting' = FALSE
    /\ UNCHANGED <<otherClient, clicks, others, foodStore, feedbackStore, clock, audit, cookie,
                   feedbacks, analytics,
                   feedbackMessage, feedbackRating, feedbackFoodId,
                  filterSearch, filterCategory, filterFrom, filterTo,
                   loading, feedbackSubmitting, feedbackStatus,
                   role, username, password, currentUser, loginError, loginLoading>>

\* ---- handleFeedbackSubmit (student feedback form) ----
MessageInputs == {"tasty", "ok", ""}

HandleFeedbackSubmitStart(msg, rating, foodId) ==
    /\ clicks < MaxClicks /\ clicks' = clicks + 1
    /\ view = "student" /\ ~feedbackSubmitting
    /\ rating \in RatingOptions
    /\ foodId \in FoodOptions
    /\ feedbackFormValid(msg)
    /\ CanSend({"createFeedback"})
    /\ feedbackMessage' = msg /\ feedbackRating' = rating /\ feedbackFoodId' = foodId
    /\ feedbackStatus' = ""
    /\ feedbackSubmitting' = TRUE
    /\ net' = net \cup {Request("createFeedback", cookie, role, <<>>,
                                feedbackPayload(msg, rating, foodId))}
    /\ UNCHANGED <<otherClient, others, foodStore, feedbackStore, clock, audit, cookie,
                   items, feedbacks, analytics, name, category, quantity,
                   filterSearch, filterCategory, filterFrom, filterTo,
                   loading, submitting, error,
                   role, username, password, currentUser, loginError, loginLoading>>

HandleFeedbackSubmitFinish(m) ==
    /\ m \in net /\ m.kind = "createFeedback" /\ m.st # "sent"
    /\ net' = net \ {m}
    /\ IF handleFeedbackSubmitThrows(m) = ""
       THEN /\ feedbackStatus' = "Feedback submitted successfully."
            /\ feedbackMessage' = "" /\ feedbackFoodId' = "" /\ feedbackRating' = "5"
       ELSE /\ feedbackStatus' = handleFeedbackSubmitThrows(m)
            /\ UNCHANGED <<feedbackMessage, feedbackFoodId, feedbackRating>>
    /\ feedbackSubmitting' = FALSE
    /\ UNCHANGED <<otherClient, clicks, others, foodStore, feedbackStore, clock, audit, cookie,
                   items, feedbacks, analytics, name, category, quantity,
                   filterSearch, filterCategory, filterFrom, filterTo,
                   loading, submitting, error,
                   role, username, password, currentUser, loginError, loginLoading>>

(***************************************************************************)
(* The system: the App just mounted (useEffect [filters] has called        *)
(* loadItems), an empty store.                                             *)
(***************************************************************************)
Init ==
    /\ foodStore = <<>> /\ feedbackStore = <<>> /\ clock = 0 /\ audit = {}
    /\ cookie = Anonymous
    /\ items = <<>> /\ feedbacks = <<>>
    /\ analytics = [top_rated |-> <<>>, rating_distribution |-> <<>>]
    /\ name = "" /\ category = "morning" /\ quantity = "1"
    /\ feedbackMessage = "" /\ feedbackRating = "5" /\ feedbackFoodId = ""
    /\ filterSearch = "" /\ filterCategory = "" /\ filterFrom = "" /\ filterTo = ""
    /\ loading = TRUE /\ submitting = FALSE /\ feedbackSubmitting = FALSE
    /\ error = "" /\ feedbackStatus = ""
    /\ role = NoRole /\ username = "" /\ password = "" /\ currentUser = ""
    /\ loginError = "" /\ loginLoading = FALSE
    /\ net = {[id |-> 1, kind |-> "listFood", cookie |-> Anonymous, sentAs |-> NoRole,
               query |-> queryString(NoFilters), body |-> NullData,
               st |-> "sent", resp |-> NoResp, by |-> "", changed |-> FALSE]}
    /\ otherClient = NullData
    /\ clicks = 0 /\ others = 0

(***************************************************************************)
(* Specifications.  Each one composes the handlers above with one          *)
(* environment: what the user of the App does and what the other clients   *)
(* of the backend send.                                                    *)
(***************************************************************************)
\* What the admin puts into a filter input: a text, an option, a date.
FilterInputs == {"", " ", "ri", "lunch", "1", "3"}

StudentLogin == <<"student", "student123">>
AdminLogin   == <<" admin ", "admin123">>
BadLogin     == <<"admin", "student123">>

OtherFood(body) == <<"createFood", AdminSession, body>>
OtherFeedback(body) == <<"createFeedback", StudentSession, body>>

RiceLunch == [name |-> "Rice", category |-> "Lunch", quantity |-> "2"]
Praise    == [message |-> "tasty", rating |-> 3, food_item_id |-> NoFood, student_name |-> "admin"]

AllOthers ==
    { OtherFood(RiceLunch),
      OtherFood([name |-> "", category |-> "lunch", quantity |-> "2"]),
      OtherFood([name |-> "Rice", category |-> "lunch", quantity |-> "0"]),
      OtherFood([name |-> "Rice", category |-> "lunch", quantity |-> "abc"]),
      <<"createFood", StudentSession, RiceLunch>>,
      OtherFeedback(Praise),
      OtherFeedback([message |-> "tasty", rating |-> 0, food_item_id |-> NoFood]),
      OtherFeedback([message |-> "tasty", rating |-> 6, food_item_id |-> NoFood]),
      OtherFeedback([message |-> "tasty", rating |-> -1, food_item_id |-> NoFood]),
      OtherFeedback([message |-> "tasty", rating |-> 4, food_item_id |-> 2]),
      <<"createFeedback", AdminSession, Praise>>,
      <<"createFood", Anonymous, RiceLunch>>,
      <<"createFeedback", Anonymous, Praise>>,
      <<"listFeedback", StudentSession, NullData>>,
      <<"listFeedback", Anonymous, NullData>> }

Next ==
    \/ \E m \in net : Serve(m)
    \/ \E m \in net : m.kind = "login" /\ Fault(m)
    \/ \E r \in AllOthers : OtherRequest(r[1], r[2], <<>>, r[3])
    \/ \E in \in {StudentLogin, AdminLogin, BadLogin} : HandleLoginStart(in[1], in[2])
    \/ \E m \in net : HandleLoginFinish(m)
    \/ HandleLogout
    \/ RefreshStudent
    \/ RefreshAdmin
    \/ \E m \in net : LoadItemsFinish(m)
    \/ \E m \in net : LoadFeedbacksFinish(m)
    \/ \E m \in net : LoadAnalyticsFinish(m)
    \/ \E in \in ItemInputs : HandleSubmitStart(in[1], in[2], in[3])
    \/ \E m \in net : HandleSubmitFinish(m)
    \/ \E msg \in MessageInputs, r \in RatingOptions, f \in FoodOptions :
         HandleFeedbackSubmitStart(msg, r, f)
    \/ \E m \in net : HandleFeedbackSubmitFinish(m)
    \/ \E field \in FilterFields, v \in FilterInputs : SetFilter(field, v)
    \/ \E base \in ExportKinds : ExportClick(base)
    \/ \E m \in net : ExportShown(m)

Spec == Init /\ [][Next]_vars

\* ---- the student's feedback: login as student, menu, feedback form ----
FeedbackOthers ==
    { OtherFood(RiceLunch),
      OtherFeedback(Praise),
      OtherFeedback([message |-> "tasty", rating |-> 0, food_item_id |-> NoFood]),
      OtherFeedback([message |-> "tasty", rating |-> 6, food_item_id |-> NoFood]),
      OtherFeedback([message |-> "tasty", rating |-> -1, food_item_id |-> NoFood]),
      OtherFeedback([message |-> "tasty", rating |-> 4, food_item_id |-> 2]) }

NextFeedback ==
    \/ \E m \in net : Serve(m)
    \/ \E r \in FeedbackOthers : OtherRequest(r[1], r[2], <<>>, r[3])
    \/ \E in \in {StudentLogin} : HandleLoginStart(in[1], in[2])
    \/ \E m \in net : HandleLoginFinish(m)
    \/ HandleLogout
    \/ RefreshStudent
    \/ \E m \in net : LoadItemsFinish(m)
    \/ \E msg \in MessageInputs, r \in RatingOptions, f \in FoodOptions :
         HandleFeedbackSubmitStart(msg, r, f)
    \/ \E m \in net : HandleFeedbackSubmitFinish(m)

SpecFeedback == Init /\ [][NextFeedback]_vars

\* ---- the admin's food items: login as admin, item form, history ----
FoodOthers ==
    { OtherFood(RiceLunch),
      OtherFood([name |-> "", category |-> "lunch", quantity |-> "2"]),
      OtherFood([name |-> "Rice", category |-> "lunch", quantity |-> "0"]),
      OtherFood([name |-> "Rice", category |-> "lunch", quantity |-> "abc"]) }

NextFood ==
    \/ \E m \in net : Serve(m)
    \/ \E r \in FoodOthers : OtherRequest(r[1], r[2], <<>>, r[3])
    \/ \E in \in {AdminLogin} : HandleLoginStart(in[1], in[2])
    \/ \E m \in net : HandleLoginFinish(m)
    \/ HandleLogout
    \/ RefreshAdmin
    \/ \E m \in net : LoadItemsFinish(m)
    \/ \E m \in net : LoadFeedbacksFinish(m)
    \/ \E m \in net : LoadAnalyticsFinish(m)
    \/ \E in \in ItemInputs : HandleSubmitStart(in[1], in[2], in[3])
    \/ \E m \in net : HandleSubmitFinish(m)

SpecFood == Init /\ [][NextFood]_vars

\* ---- sessions and roles: logins of both roles, failing logins, logout ----
SessionOthers ==
    { OtherFeedback(Praise),
      <<"listFeedback", StudentSession, NullData>>,
      <<"listFeedback", Anonymous, NullData>> }

NextSession ==
    \/ \E m \in net : Serve(m)
    \/ \E m \in net : m.kind = "login" /\ Fault(m)
    \/ \E r \in SessionOthers : OtherRequest(r[1], r[2], <<>>, r[3])
    \/ \E in \in {StudentLogin, AdminLogin, BadLogin} : HandleLoginStart(in[1], in[2])
    \/ \E m \in net : HandleLoginFinish(m)
    \/ HandleLogout
    \/ RefreshStudent
    \/ RefreshAdmin
    \/ \E m \in net : LoadItemsFinish(m)
    \/ \E m \in net : LoadFeedbacksFinish(m)
    \/ \E m \in net : LoadAnalyticsFinish(m)

SpecSession == Init /\ [][NextSession]_vars

\* ---- who may create what: both roles, both forms ----
RolesOthers ==
    { <<"createFood", StudentSession, RiceLunch>>,
      <<"createFood", Anonymous, RiceLunch>>,
      <<"createFeedback", AdminSession, Praise>>,
      <<"createFeedback", Anonymous, Praise>> }

NextRoles ==
    \/ \E m \in net : Serve(m)
    \/ \E r \in RolesOthers : OtherRequest(r[1], r[2], <<>>, r[3])
    \/ \E in \in {StudentLogin, AdminLogin} : HandleLoginStart(in[1], in[2])
    \/ \E m \in net : HandleLoginFinish(m)
    \/ HandleLogout
    \/ \E m \in net : LoadItemsFinish(m)
    \/ \E m \in net : LoadFeedbacksFinish(m)
    \/ \E m \in net : LoadAnalyticsFinish(m)
    \/ \E in \in ItemInputs : HandleSubmitStart(in[1], in[2], in[3])
    \/ \E m \in net : HandleSubmitFinish(m)
    \/ \E msg \in MessageInputs, r \in RatingOptions, f \in FoodOptions :
         HandleFeedbackSubmitStart(msg, r, f)
    \/ \E m \in net : HandleFeedbackSubmitFinish(m)

SpecRoles == Init /\ [][NextRoles]_vars

\* ---- creations that end in an error ----
\* Other clients: each error a creation can be rejected with, and one
\* creation that succeeds.
ErrorOthers ==
    { OtherFood([name |-> "", category |-> "lunch", quantity |-> "2"]),
      <<"createFood", StudentSession, RiceLunch>>,
      <<"createFood", Anonymous, RiceLunch>>,
      OtherFeedback([message |-> "tasty", rating |-> 6, food_item_id |-> NoFood]),
      OtherFeedback([message |-> "tasty", rating |-> 4, food_item_id |-> 2]),
      OtherFood(RiceLunch) }

Creates == {"createFood", "createFeedback"}

NextErrors ==
    \/ \E m \in net : Serve(m)
    \/ \E m \in net : m.kind \in Creates /\ Fault(m)
    \/ \E r \in ErrorOthers : OtherRequest(r[1], r[2], <<>>, r[3])
    \/ \E in \in {StudentLogin, AdminLogin} : HandleLoginStart(in[1], in[2])
    \/ \E m \in net : HandleLoginFinish(m)
    \/ \E m \in net : LoadItemsFinish(m)
    \/ \E m \in net : LoadFeedbacksFinish(m)
    \/ \E m \in net : LoadAnalyticsFinish(m)
    \/ \E in \in ItemInputs : HandleSubmitStart(in[1], in[2], in[3])
    \/ \E m \in net : HandleSubmitFinish(m)
    \/ \E msg \in MessageInputs, r \in RatingOptions, f \in FoodOptions :
         HandleFeedbackSubmitStart(msg, r, f)
    \/ \E m \in net : HandleFeedbackSubmitFinish(m)

SpecErrors == Init /\ [][NextErrors]_vars

(***************************************************************************)
(* A backend that already holds records: what a sequence of creations by   *)
(* admins (the food items, first) and by students (the feedback, then)     *)
(* leaves in the stores.  given is a sequence of <<name, category,         *)
(* quantity>>, resp. <<food_item_id, rating, message>>.                    *)
(***************************************************************************)
MakeFood(given) ==
    [i \in 1..Len(given) |->
        [id |-> i, name |-> given[i][1], category |-> given[i][2],
         quantity |-> given[i][3], created_at |-> i - 1]]

MakeFeedback(food, given) ==
    [i \in 1..Len(given) |->
        [id |-> i, student_name |-> StudentSession.username,
         food_item_id |-> given[i][1],
         food_item_name |-> FoodName(food, given[i][1]),
         rating |-> given[i][2], message |-> given[i][3],
         created_at |-> Len(food) + i - 1]]

MakeAudit(food, fbs) ==
    {[entity |-> "food", id |-> food[i].id, by |-> AdminSession] : i \in 1..Len(food)}
        \cup {[entity |-> "feedback", id |-> fbs[i].id, by |-> StudentSession] :
                 i \in 1..Len(fbs)}

Stored(food, fbs) == [food |-> MakeFood(food), feedback |-> MakeFeedback(MakeFood(food), fbs)]

StoreEmpty == Stored(<<>>, <<>>)

StoreSmall == Stored(<< <<"Rice", "lunch", 2>> >>, << <<1, 5, "tasty">> >>)

\* Rice is rated 5, 5 and 3; one feedback is about no food item.
StoreMenu ==
    Stored(<< <<"Rice", "lunch", 2>>, <<"Dal", "Lunch", 1>>, <<"Dosa", "morning", 3>> >>,
           << <<1, 5, "tasty">>, <<1, 5, "good rice">>, <<NoFood, 4, "nice staff">>,
              <<1, 3, "cold">>, <<2, 4, "tasty dal">> >>)

\* Two items of one name.
StoreTwins ==
    Stored(<< <<"Rice", "lunch", 2>>, <<"Rice", "dinner", 1>> >>,
           << <<1, 5, "tasty">>, <<2, 2, "cold">> >>)

\* More groups than the analytics keep, with ties of mean and of count.
StoreRanking ==
    Stored(<< <<"Dosa", "morning", 1>>, <<"Dal", "lunch", 1>>, <<"Rice", "lunch", 1>>,
              <<"Roti", "dinner", 1>>, <<"Laddu", "dinner", 1>>, <<"Lassi", "morning", 1>> >>,
           << <<1, 5, "tasty">>, <<2, 5, "tasty">>, <<3, 5, "tasty">>, <<3, 5, "tasty">>,
              <<4, 4, "good">>, <<5, 3, "sweet">>, <<6, 2, "sour">>, <<NoFood, 1, "slow">> >>)

Stores == {StoreEmpty, StoreSmall, StoreMenu, StoreTwins, StoreRanking}

\* The App just mounted, in front of a backend that holds one of the stores;
\* oc is the request of another client that is on its way (NullData: none).
InitFrom(stores, oc) ==
    /\ \E st \in stores :
          /\ foodStore = st.food /\ feedbackStore = st.feedback
          /\ clock = Len(st.food) + Len(st.feedback)
          /\ audit = MakeAudit(st.food, st.feedback)
    /\ cookie = Anonymous
    /\ items = <<>> /\ feedbacks = <<>>
    /\ analytics = [top_rated |-> <<>>, rating_distribution |-> <<>>]
    /\ name = "" /\ category = "morning" /\ quantity = "1"
    /\ feedbackMessage = "" /\ feedbackRating = "5" /\ feedbackFoodId = ""
    /\ filterSearch = "" /\ filterCategory = "" /\ filterFrom = "" /\ filterTo = ""
    /\ loading = TRUE /\ submitting = FALSE /\ feedbackSubmitting = FALSE
    /\ error = "" /\ feedbackStatus = ""
    /\ role = NoRole /\ username = "" /\ password = "" /\ currentUser = ""
    /\ loginError = "" /\ loginLoading = FALSE
    /\ net = {[id |-> 1, kind |-> "listFood", cookie |-> Anonymous, sentAs |-> NoRole,
               query |-> queryString(NoFilters), body |-> NullData,
               st |-> "sent", resp |-> NoResp, by |-> "", changed |-> FALSE]}
    /\ otherClient = oc
    /\ clicks = 0 /\ others = 0

InitWith(oc) == InitFrom(Stores, oc)

InitStored(st) == InitFrom({st}, NullData)

\* ---- the admin dashboard in front of a backend that holds records ----
\* Other clients: a student gives feedback, another reads the analytics.
DashboardOthers ==
    { <<"createFeedback", StudentSession, <<>>,
        [message |-> "tasty", rating |-> 4, food_item_id |-> 1]>>,
      <<"analytics", StudentSession, <<>>, NullData>> }

NextDashboard ==
    \/ \E m \in net : Serve(m)
    \/ \E r \in DashboardOthers : OtherRequest(r[1], r[2], r[3], r[4])
    \/ HandleLoginStart(AdminLogin[1], AdminLogin[2])
    \/ \E m \in net : HandleLoginFinish(m)
    \/ RefreshAdmin
    \/ \E m \in net : LoadItemsFinish(m)
    \/ \E m \in net : LoadFeedbacksFinish(m)
    \/ \E m \in net : LoadAnalyticsFinish(m)

InitDashboard == InitStored(StoreSmall)

SpecDashboard == InitDashboard /\ [][NextDashboard]_vars

\* ---- the admin filters the dashboard and opens export links ----
ExportFilters == {<<"filterCategory", "lunch">>, <<"filterSearch", " ri">>}

NextExport ==
    \/ \E m \in net : Serve(m)
    \/ HandleLoginStart(AdminLogin[1], AdminLogin[2])
    \/ \E m \in net : HandleLoginFinish(m)
    \/ \E in \in ExportFilters : SetFilter(in[1], in[2])
    \/ \E base \in {"exportFoodCsv", "exportFeedbackPdf"} : ExportClick(base)
    \/ \E m \in net : ExportShown(m)
    \/ \E m \in net : LoadItemsFinish(m)
    \/ \E m \in net : LoadFeedbacksFinish(m)
    \/ \E m \in net : LoadAnalyticsFinish(m)

InitExport == InitStored(StoreTwins)

SpecExport == InitExport /\ [][NextExport]_vars

\* ---- the query layer as a function: any filter, any read endpoint ----
\* The filters other instances of the App send, through queryString ...
FilterPool ==
    [search : {"", " ", "ri", "RICE", "tasty"},
     category : {"", "lunch", "Lunch", "snack"},
     date_from : {"", "1", "3", "4"},
     date_to : {"", "0", "3", "5"}]

\* ... and queries of other programs, with options that are empty strings.
RawQueries ==
    { [search |-> "", category |-> "", date_from |-> "", date_to |-> ""],
      [category |-> ""],
      [search |-> "", category |-> "lunch"],
      [date_from |-> "", date_to |-> "3"],
      [search |-> "ri", date_to |-> ""] }

\* What each of these filters is sent as.
SentQuery == {[filter |-> f, query |-> queryString(f)] : f \in FilterPool}

QueryPool == {s.query : s \in SentQuery} \cup RawQueries

ReadKinds == {"listFood", "listFeedback", "analytics"} \cup ExportKinds

\* A read request of another client, not yet handled.
PendingRead(kind, session, q) ==
    [id |-> 0, kind |-> kind, cookie |-> session, sentAs |-> "other",
     query |-> q, body |-> NullData, st |-> "sent", resp |-> NoResp,
     by |-> "", changed |-> FALSE, during |-> FALSE]

InitPure ==
    \E kind \in ReadKinds, q \in QueryPool, session \in {AdminSession, StudentSession} :
       InitWith(PendingRead(kind, session, q))

NextPure == AnswerOther

SpecPure == InitPure /\ [][NextPure]_vars

(***************************************************************************)
(* Properties.                                                             *)
(***************************************************************************)
\* The requests the backend has answered and whose answer is still in the
\* state: those of the App not yet consumed, and the last one of the other
\* clients.
Handled ==
    {m \in net : m.by = "backend"}
        \cup (IF otherClient = NullData THEN {} ELSE {otherClient})

Rejected(m, status, kind) == m.resp = ErrorResp(status, kind) /\ ~m.changed

FoodIds == {foodStore[i].id : i \in 1..Len(foodStore)}

\* C1: every stored feedback entry has a rating in 1..5; createFeedback with
\* a rating outside 1..5 is answered ValidationError and stores nothing; the
\* feedback form offers, and the App sends, only the ratings 1..5.
C1_RatingInRange ==
    /\ \A i \in 1..Len(feedbackStore) : feedbackStore[i].rating \in 1..5
    /\ \A m \in Handled :
          (/\ m.kind = "createFeedback"
           /\ m.cookie.role = "student"
           /\ Get(m.body, "rating", NaN) \notin 1..5)
             => Rejected(m, 400, "ValidationError")
    /\ \A r \in RatingOptions : NumberOf(r) \in 1..5
    /\ \A m \in net : m.kind = "createFeedback" => m.body.rating \in 1..5

\* A rating outside the range was rejected, and a feedback of the form is stored.
C1_Witness ==
    /\ otherClient # NullData
    /\ otherClient.kind = "createFeedback"
    /\ otherClient.body.rating \notin 1..5
    /\ Rejected(otherClient, 400, "ValidationError")
    /\ \E i \in 1..Len(feedbackStore) : feedbackStore[i].rating \in 1..5

\* C2: every stored food item has a non-empty name and an integer quantity
\* >= 1; createFoodItem with an empty name, or a quantity that is no number
\* or is <= 0, is answered ValidationError and stores nothing; the item form
\* submits only a non-empty name and a quantity >= 1.
C2_FoodItemValid ==
    /\ \A i \in 1..Len(foodStore) :
          foodStore[i].name # "" /\ foodStore[i].quantity \in Nat \ {0}
    /\ \A m \in Handled :
          (/\ m.kind = "createFood"
           /\ m.cookie.role = "admin"
           /\ \/ Get(m.body, "name", "") = ""
              \/ NumberOf(Get(m.body, "quantity", "")) = NaN
              \/ NumberOf(Get(m.body, "quantity", "")) <= 0)
             => Rejected(m, 400, "ValidationError")
    /\ \A m \in net :
          m.kind = "createFood" => m.body.name # "" /\ NumberOf(m.body.quantity) >= 1

\* An invalid item was rejected, and an item of the form is stored.
C2_Witness ==
    /\ otherClient # NullData
    /\ otherClient.kind = "createFood"
    /\ Rejected(otherClient, 400, "ValidationError")
    /\ \E m \in net : m.kind = "createFood" /\ m.by = "backend" /\ m.resp.ok
    /\ foodStore # <<>>

\* C3: a successful createFoodItem answers with an item that has exactly the
\* name, category and quantity submitted (those of the form, for the App) and
\* an id no other stored item has, also when two creations overlap.
C3_CreateReturnsSubmitted ==
    /\ \A m \in Handled :
          (m.kind = "createFood" /\ m.resp.ok) =>
             /\ m.resp.data.name = m.body.name
             /\ m.resp.data.category = m.body.category
             /\ m.resp.data.quantity = NumberOf(m.body.quantity)
             /\ Cardinality({i \in 1..Len(foodStore) :
                                foodStore[i].id = m.resp.data.id}) = 1
             /\ \E i \in 1..Len(foodStore) : foodStore[i] = m.resp.data
    /\ \A i, j \in 1..Len(foodStore) : i # j => foodStore[i].id # foodStore[j].id
    /\ \A m \in net :
          m.kind = "createFood" =>
             m.body = [name |-> name, category |-> category, quantity |-> quantity]

\* Another client's creation was handled while the App's was in flight, and
\* both succeeded.
C3_Witness ==
    /\ otherClient # NullData
    /\ otherClient.kind = "createFood" /\ otherClient.during /\ otherClient.resp.ok
    /\ \E m \in net :
          /\ m.kind = "createFood" /\ m.by = "backend" /\ m.resp.ok
          /\ m.resp.data.id # otherClient.resp.data.id
          /\ m.resp.data.name = name

\* An item a creation answered with is once in listFoodItems without filter,
\* as submitted and as answered.
CreatedIsListed ==
    \A m \in Handled :
       (m.kind = "createFood" /\ m.resp.ok) =>
          LET all  == ListFoodItems(foodStore, <<>>)
              hits == {i \in 1..Len(all) : all[i].id = m.resp.data.id}
          IN  /\ Cardinality(hits) = 1
              /\ \A i \in hits :
                    /\ all[i].name = m.body.name
                    /\ all[i].category = m.body.category
                    /\ all[i].quantity = NumberOf(m.body.quantity)
                    /\ all[i].created_at = m.resp.data.created_at

\* The answer to listFoodItems without filter: the items stored when it was
\* handled (the store only grows, so a prefix of the store), each once.
UnfilteredAnswers ==
    \A m \in Handled :
       (m.kind = "listFood" /\ m.query = <<>>) =>
          LET got == m.resp.data.items
          IN  /\ Len(got) <= Len(foodStore)
              /\ got = SubSeq(foodStore, 1, Len(got))
              /\ \A i, j \in 1..Len(got) : i # j => got[i] # got[j]

\* The App shows a successful answer to loadItems as it is.
LoadShowsAnswer ==
    \A m \in net :
       (/\ m.kind = "listFood" /\ m.by = "backend" /\ m.resp.ok
        /\ m \notin net')
          => items' = m.resp.data.items

\* C4: a created food item fetched by listFoodItems without filter is in the
\* result exactly once, with the fields, id and timestamp of its creation,
\* and the App's item list after loadItems is that result.
C4_RoundTrip ==
    /\ [](/\ CreatedIsListed
          /\ UnfilteredAnswers)
    /\ [][LoadShowsAnswer]_vars

\* The App has loaded, exactly once, the item another client created.
C4_Witness ==
    /\ otherClient # NullData
    /\ otherClient.kind = "createFood" /\ otherClient.resp.ok
    /\ Cardinality({i \in 1..Len(items) : items[i] = otherClient.resp.data}) = 1
    /\ ~loading

\* C5: a stored feedback entry refers to no food item or to a stored one;
\* createFeedback with a food_item_id that matches no stored item is answered
\* NotFound and stores nothing; the feedback form sends no item or one of the
\* loaded, hence stored, items.
C5_FoodReference ==
    /\ \A i \in 1..Len(feedbackStore) :
          feedbackStore[i].food_item_id \in {NoFood} \cup FoodIds
    /\ \A m \in Handled :
          (/\ m.kind = "createFeedback"
           /\ m.cookie.role = "student"
           /\ Len(Get(m.body, "message", "")) >= 3
           /\ Get(m.body, "rating", NaN) \in 1..5
           /\ Get(m.body, "food_item_id", NoFood) \notin {NoFood} \cup FoodIds)
             => Rejected(m, 404, "NotFound")
    /\ \A m \in net :
          m.kind = "createFeedback" => m.body.food_item_id \in {NoFood} \cup FoodIds

\* A reference to an item that is not stored was rejected.
C5_Witness ==
    /\ otherClient # NullData
    /\ otherClient.kind = "createFeedback"
    /\ otherClient.body.food_item_id \notin {NoFood} \cup FoodIds
    /\ Rejected(otherClient, 404, "NotFound")

\* C6: listFeedback succeeds only for an admin session; from a student
\* session it is answered Forbidden, without feedback entries; every
\* feedback or analytics load of the App was sent while its role was admin.
C6_FeedbackAdminOnly ==
    /\ \A m \in Handled :
          m.kind = "listFeedback" =>
             /\ m.resp.ok => m.cookie.role = "admin"
             /\ m.cookie.role = "student" =>
                   /\ Rejected(m, 403, "Forbidden")
                   /\ "feedbacks" \notin DOMAIN m.resp.data
    /\ \A m \in net :
          m.kind \in {"listFeedback", "analytics"} => m.sentAs = "admin"

\* A student session was refused the feedback the App, as admin, was given.
C6_Witness ==
    /\ otherClient # NullData
    /\ otherClient.kind = "listFeedback" /\ otherClient.cookie.role = "student"
    /\ Rejected(otherClient, 403, "Forbidden")
    /\ \E m \in net : m.kind = "listFeedback" /\ m.by = "backend" /\ m.resp.ok

\* C7: every stored food item was created by an admin session and every
\* stored feedback entry by a student session, any other session is refused;
\* the App sends createFoodItem only from the admin view and createFeedback
\* only from the student view.
C7_CreateByRole ==
    /\ \A i \in 1..Len(foodStore) :
          \E a \in audit : a.entity = "food" /\ a.id = foodStore[i].id
    /\ \A i \in 1..Len(feedbackStore) :
          \E a \in audit : a.entity = "feedback" /\ a.id = feedbackStore[i].id
    /\ \A a \in audit :
          /\ a.entity = "food" => a.by.role = "admin"
          /\ a.entity = "feedback" => a.by.role = "student"
    /\ \A m \in Handled :
          /\ (m.kind = "createFood" /\ m.cookie.role # "admin") =>
                ~m.resp.ok /\ ~m.changed
          /\ (m.kind = "createFeedback" /\ m.cookie.role # "student") =>
                ~m.resp.ok /\ ~m.changed
    /\ \A m \in net :
          /\ m.kind = "createFood" => m.sentAs = "admin"
          /\ m.kind = "createFeedback" => m.sentAs = "student"

\* A student session was refused a creation the App, as admin, was granted.
C7_Witness ==
    /\ otherClient # NullData
    /\ otherClient.kind = "createFood" /\ otherClient.cookie.role = "student"
    /\ Rejected(otherClient, 403, "Forbidden")
    /\ \E m \in net : m.kind = "createFood" /\ m.by = "backend" /\ m.resp.ok

\* C8: the student name of a stored feedback entry is the username of the
\* session that created it, whatever the request body says; the body the App
\* sends has the fields message, rating and food_item_id only.
C8_StudentNameFromSession ==
    /\ \A i \in 1..Len(feedbackStore) :
          \E a \in audit :
             /\ a.entity = "feedback" /\ a.id = feedbackStore[i].id
             /\ feedbackStore[i].student_name = a.by.username
    /\ \A m \in Handled :
          (m.kind = "createFeedback" /\ m.resp.ok) =>
             m.resp.data.student_name = m.cookie.username
    /\ \A m \in net :
          m.kind = "createFeedback" =>
             DOMAIN m.body = {"message", "rating", "food_item_id"}

\* A body that names another student was stored under the session's name.
C8_Witness ==
    /\ otherClient # NullData
    /\ otherClient.kind = "createFeedback" /\ otherClient.resp.ok
    /\ "student_name" \in DOMAIN otherClient.body
    /\ otherClient.body.student_name # otherClient.cookie.username
    /\ \E i \in 1..Len(feedbackStore) :
          /\ feedbackStore[i].id = otherClient.resp.data.id
          /\ feedbackStore[i].student_name = otherClient.cookie.username

\* A login response the App accepts: successful, with role student or admin.
GoodLogin(m) ==
    /\ m.st = "done" /\ m.resp.ok
    /\ Get(m.resp.data, "role", "") \in {"student", "admin"}

LoginAnswers ==
    \A m \in Handled :
       m.kind = "login" =>
          /\ (\A c \in Credentials :
                 c.username # m.body.username \/ c.password # m.body.password)
                => Rejected(m, 401, "InvalidCredentials")
          /\ m.resp.ok =>
                /\ m.resp.setCookie.role \in {"student", "admin"}
                /\ m.resp.data.role = m.resp.setCookie.role
                /\ Cardinality({c \in Credentials :
                       /\ c.username = m.body.username
                       /\ c.password = m.body.password
                       /\ c.role = m.resp.setCookie.role}) = 1

RoleOnlyByGoodLogin ==
    (role' # role /\ role' # NoRole) =>
       \E m \in net : /\ m.kind = "login" /\ GoodLogin(m)
                      /\ m \notin net'
                      /\ role' = m.resp.data.role

OtherLoginResponse ==
    \A m \in net :
       (m.kind = "login" /\ m.st # "sent" /\ m \notin net' /\ ~GoodLogin(m)) =>
          role' = NoRole /\ loginError' # ""

\* C9: authenticate with a pair that matches no credential answers
\* InvalidCredentials and sets no session, a success binds the session to the
\* role, student or admin, of the matching credential; the App's role becomes
\* non-null only by a successful login response with role student or admin,
\* any other response leaves it null and sets the login error.
C9_LoginOnlyByCredentials ==
    /\ [](LoginAnswers /\ role \in {NoRole, "student", "admin"})
    /\ [][RoleOnlyByGoodLogin /\ OtherLoginResponse]_vars

\* The App has shown the error of a login the backend refused.
C9_Witness ==
    /\ loginError = "InvalidCredentials"
    /\ role = NoRole /\ cookie = Anonymous
    /\ ~loginLoading /\ username = "admin"

\* C10: after logout the browser holds no session identity, and no request
\* sent while logged out carries one.
C10_LogoutDiscardsSession ==
    /\ role = NoRole => cookie = Anonymous
    /\ \A m \in net : m.sentAs = NoRole => m.cookie = Anonymous

\* Logout changes nothing the backend stores.
LogoutKeepsStores ==
    (role # NoRole /\ role' = NoRole) =>
       UNCHANGED <<foodStore, feedbackStore, audit>>

C10_LogoutFrame == [][LogoutKeepsStores]_vars

\* The other client's request has been answered by the backend.
OtherAnswered == otherClient # NullData /\ otherClient.st = "done"

\* The query q without the option k.
Without(q, k) == [x \in DOMAIN q \ {k} |-> q[x]]

Within(t, from, to) ==
    /\ from = "" \/ NumberOf(from) <= t
    /\ to = "" \/ t <= NumberOf(to)

\* The rows of an answered list request of the other client, and the rows the
\* same request gives when the query is q.
OtherRows ==
    IF otherClient.kind = "listFood" THEN otherClient.resp.data.items
    ELSE otherClient.resp.data.feedbacks

RowsFor(kind, q) ==
    IF kind = "listFood" THEN ListFoodItems(foodStore, q)
    ELSE ListFeedback(foodStore, feedbackStore, q)

\* A list request that the role gate lets through.
OtherListed ==
    /\ OtherAnswered
    /\ otherClient.kind \in {"listFood", "listFeedback"}
    /\ otherClient.kind = "listFeedback" => otherClient.cookie.role = "admin"

\* C12: the date filter keeps exactly the rows with date_from <= created_at
\* <= date_to, both bounds inclusive and an empty bound unbounded; with
\* date_from > date_to the answer is the empty sequence and no error; the
\* dates a filter of the App holds are the bounds its request is answered by.
C12_DateRange ==
    OtherListed =>
       LET q     == otherClient.query
           from  == QGet(q, "date_from")
           to    == QGet(q, "date_to")
           other == RowsFor(otherClient.kind, Without(Without(q, "date_from"), "date_to"))
       IN  /\ otherClient.resp.ok
           /\ OtherRows = SelectSeq(other, LAMBDA r : Within(r.created_at, from, to))
           /\ (from # "" /\ to # "" /\ NumberOf(from) > NumberOf(to)) => OtherRows = <<>>
           /\ \A s \in SentQuery :
                 s.query = q =>
                    OtherRows = SelectSeq(other, LAMBDA r :
                                   Within(r.created_at, Trim(s.filter.date_from),
                                                        Trim(s.filter.date_to)))

\* A list of food items from time 3 on holds the item created at 3 and not the
\* item created at 2.
C12_Witness ==
    /\ OtherListed /\ otherClient.kind = "listFood"
    /\ otherClient.query = [date_from |-> "3"]
    /\ \E i \in 1..Len(foodStore) :
          /\ foodStore[i].created_at = 3
          /\ foodStore[i] \in SeqToSet(otherClient.resp.data.items)
    /\ \E i \in 1..Len(foodStore) :
          /\ foodStore[i].created_at = 2
          /\ foodStore[i] \notin SeqToSet(otherClient.resp.data.items)

\* A list whose date_from lies after its date_to is answered with no rows,
\* though rows are stored.
InvertedDatesAnswered ==
    /\ OtherListed /\ otherClient.kind = "listFeedback"
    /\ otherClient.query = [date_from |-> "4", date_to |-> "3"]
    /\ feedbackStore # <<>>
    /\ otherClient.resp.ok /\ otherClient.resp.data.feedbacks = <<>>

\* The query q without the options whose value is the empty string.
GivenOptions(q) == [k \in {x \in DOMAIN q : q[x] # ""} |-> q[k]]

\* Every option of the filter f is blank.
AllBlank(f) == \A k \in DOMAIN f : Trim(f[k]) = ""

\* C13: an option that is the empty string counts as an absent one, and a
\* filter with no option set returns every stored row; queryString sends no
\* key whose trimmed value is empty, so a filter of blanks is sent as no query
\* parameters at all.
C13_EmptyFilter ==
    /\ OtherListed =>
          LET q == otherClient.query
          IN  /\ OtherRows = RowsFor(otherClient.kind, GivenOptions(q))
              /\ GivenOptions(q) = <<>> =>
                    OtherRows = (IF otherClient.kind = "listFood" THEN foodStore
                                 ELSE feedbackStore)
    /\ (OtherAnswered /\ otherClient.kind = "analytics") =>
          otherClient.resp.data
             = ComputeAnalytics(foodStore, feedbackStore, GivenOptions(otherClient.query))
    /\ OtherAnswered =>
          \A s \in SentQuery :
             s.query = otherClient.query =>
                /\ \A k \in DOMAIN s.filter :
                      k \in DOMAIN otherClient.query <=> Trim(s.filter[k]) # ""
                /\ AllBlank(s.filter) => otherClient.query = <<>>

\* A list whose four options are all the empty string is answered with every
\* stored item.
C13_Witness ==
    /\ OtherListed /\ otherClient.kind = "listFood"
    /\ otherClient.query = [search |-> "", category |-> "", date_from |-> "", date_to |-> ""]
    /\ Len(foodStore) >= 2
    /\ otherClient.resp.data.items = foodStore

\* The filter whose search is one blank is sent as no query parameters and
\* answered with every stored feedback.
BlankFilterAnswered ==
    /\ OtherListed /\ otherClient.kind = "listFeedback"
    /\ otherClient.query = queryString([NoFilters EXCEPT !.search = " "])
    /\ otherClient.query = <<>>
    /\ feedbackStore # <<>>
    /\ otherClient.resp.data.feedbacks = feedbackStore

\* The number of rows of rating r.
RatedCount(rows, r) == Cardinality({i \in 1..Len(rows) : rows[i].rating = r})

OtherAnalytics == OtherAnswered /\ otherClient.kind = "analytics"

\* C14: ratingDistribution has exactly the keys 1..5; the count of a key is the
\* number of the filtered feedback entries of that rating, with or without a
\* food reference, 0 when there is none; the five counts sum to the number of
\* rows listFeedback returns under the same filter.  The chart shows one bar
\* for each key with that count, and its total is that number of rows.
C14_RatingDistribution ==
    OtherAnalytics =>
       LET dist == otherClient.resp.data.rating_distribution
           rows == ListFeedback(foodStore, feedbackStore, otherClient.query)
       IN  /\ otherClient.resp.ok
           /\ DOMAIN dist = {"1", "2", "3", "4", "5"}
           /\ \A r \in 1..5 : dist[StringOf(r)] = RatedCount(rows, r)
           /\ dist["1"] + dist["2"] + dist["3"] + dist["4"] + dist["5"] = Len(rows)
           /\ SeqToSet(chartKeys) = DOMAIN dist
           /\ \A i \in 1..Len(chartKeys) :
                 chartValue(dist, chartKeys[i]) = RatedCount(rows, NumberOf(chartKeys[i]))
           /\ chartTotal(dist) = Len(rows)

\* The unfiltered distribution counts the entry of rating 4 that refers to no
\* food item, and has a zero for a rating nobody gave.
C14_Witness ==
    /\ OtherAnalytics /\ otherClient.query = <<>>
    /\ \E i \in 1..Len(feedbackStore) :
          feedbackStore[i].food_item_id = NoFood /\ feedbackStore[i].rating = 4
    /\ otherClient.resp.data.rating_distribution
          = [k \in RatingKeys |-> CASE k = "5" -> 2 [] k = "4" -> 2 [] k = "3" -> 1
                                    [] OTHER -> 0]

\* The example of the ratings 5, 5 and 3 for Rice.
RiceExampleAnswered ==
    /\ OtherAnalytics /\ otherClient.query = [search |-> "ri"]
    /\ otherClient.resp.data.rating_distribution
          = [k \in RatingKeys |-> CASE k = "5" -> 2 [] k = "3" -> 1 [] OTHER -> 0]
    /\ otherClient.resp.data.top_rated
          = << [food_name |-> "Rice", avg_rating |-> [num |-> 13, den |-> 3], count |-> 3] >>

\* The filtered entries that refer to a food item of name n.
EntriesFor(rows, n) ==
    SelectSeq(rows, LAMBDA f : f.food_item_id # NoFood /\ f.food_item_name = n)

\* The names the filtered entries refer to.
NamesIn(rows) ==
    {rows[i].food_item_name : i \in {j \in 1..Len(rows) : rows[j].food_item_id # NoFood}}

\* C15: topRated has at most one group for a food name; a group's count is the
\* number of the filtered entries that refer to a food item of that name and
\* its mean is the sum of their ratings over that count; an entry without a
\* food reference is in no group; every name that is referred to has its
\* group unless the top-N cut it.  The chart shows the mean to one decimal.
C15_TopRatedGroups ==
    OtherAnalytics =>
       LET top   == otherClient.resp.data.top_rated
           rows  == ListFeedback(foodStore, feedbackStore, otherClient.query)
           lines == topRatedLines(top)
       IN  /\ \A i, j \in 1..Len(top) : top[i].food_name = top[j].food_name => i = j
           /\ \A i \in 1..Len(top) :
                 LET mine == EntriesFor(rows, top[i].food_name)
                 IN  /\ top[i].count = Len(mine) /\ Len(mine) >= 1
                     /\ top[i].avg_rating = [num |-> SumRatings(mine), den |-> Len(mine)]
                     /\ lines[i].key = top[i].food_name
                     /\ lines[i].count = Len(mine)
                     \* | shown / 10 - sum / count | <= 1 / 20
                     /\ 2 * (lines[i].shown * Len(mine) - 10 * SumRatings(mine)) <= Len(mine)
                     /\ 2 * (10 * SumRatings(mine) - lines[i].shown * Len(mine)) <= Len(mine)
           /\ {top[i].food_name : i \in 1..Len(top)} \subseteq NamesIn(rows)
           /\ Cardinality(NamesIn(rows)) <= TopN =>
                 {top[i].food_name : i \in 1..Len(top)} = NamesIn(rows)

\* The ratings 5, 5 and 3 for Rice make one group of count 3 and mean 13/3,
\* shown as 4.3; the entry that refers to no food item is in no group.
C15_Witness ==
    /\ OtherAnalytics /\ otherClient.query = <<>>
    /\ \E i \in 1..Len(feedbackStore) : feedbackStore[i].food_item_id = NoFood
    /\ Len(feedbackStore) = 5
    /\ otherClient.resp.data.top_rated
          = << [food_name |-> "Rice", avg_rating |-> [num |-> 13, den |-> 3], count |-> 3],
               [food_name |-> "Dal", avg_rating |-> [num |-> 4, den |-> 1], count |-> 1] >>
    /\ topRatedLines(otherClient.resp.data.top_rated)[1].shown = 43

\* Two food items of one name are one group.
TwinsAnswered ==
    /\ OtherAnalytics /\ otherClient.query = <<>>
    /\ Cardinality({foodStore[i].id : i \in 1..Len(foodStore)}) = 2
    /\ otherClient.resp.data.top_rated
          = << [food_name |-> "Rice", avg_rating |-> [num |-> 7, den |-> 2], count |-> 2] >>

\* The group of name n among the filtered entries, and its place before the
\* group of name m: higher mean, then higher count, then the name that comes
\* first.
GroupOf(rows, n) ==
    LET mine == EntriesFor(rows, n)
    IN  [name |-> n, sum |-> SumRatings(mine), count |-> Len(mine)]

Precedes(g, h) ==
    \/ g.sum * h.count > h.sum * g.count
    \/ g.sum * h.count = h.sum * g.count /\ g.count > h.count
    \/ g.sum * h.count = h.sum * g.count /\ g.count = h.count /\ StrBefore(g.name, h.name)

\* C16: topRated is ordered by descending mean, then descending count, then
\* ascending food name, and holds the first top-N groups of that order and no
\* more; the chart lists the groups in the order received.
C16_TopRatedOrder ==
    OtherAnalytics =>
       LET top   == otherClient.resp.data.top_rated
           rows  == ListFeedback(foodStore, feedbackStore, otherClient.query)
           names == NamesIn(rows)
           kept  == {top[i].food_name : i \in 1..Len(top)}
           lines == topRatedLines(top)
       IN  /\ Len(top) = Min(TopN, Cardinality(names))
           /\ \A i, j \in 1..Len(top) :
                 i < j => Precedes(GroupOf(rows, top[i].food_name),
                                   GroupOf(rows, top[j].food_name))
           /\ \A n \in names \ kept :
                 \A i \in 1..Len(top) :
                    Precedes(GroupOf(rows, top[i].food_name), GroupOf(rows, n))
           /\ Len(lines) = Len(top)
           /\ \A i \in 1..Len(top) : lines[i].key = top[i].food_name

\* Of six rated items the chart lists five: Rice (5, twice) before Dal and
\* Dosa (5, once each, by name), then Roti and Laddu; Lassi is cut.
C16_Witness ==
    /\ OtherAnalytics /\ otherClient.query = <<>>
    /\ Cardinality(NamesIn(feedbackStore)) = 6
    /\ LET lines == topRatedLines(otherClient.resp.data.top_rated)
       IN  [i \in 1..Len(lines) |-> lines[i].key]
              = <<"Rice", "Dal", "Dosa", "Roti", "Laddu">>

\* The step answers the App's request m: n is m with the backend's response.
AnswerTo(m, n) ==
    /\ m \in net /\ m.st = "sent"
    /\ n \in net' /\ n.kind = m.kind /\ n.id = m.id
    /\ n.st = "done" /\ n.by = "backend"

\* The feedback entry a student just gave, if the last request of another
\* client was a createFeedback that succeeded.
OtherGaveFeedback ==
    /\ OtherAnswered /\ otherClient.kind = "createFeedback" /\ otherClient.resp.ok

\* C17: an analytics answer is computed from the stored records and the
\* filter of the request, whoever asks; it stores nothing; of two calls with
\* one filter and no write between them the answers are equal (the admin's
\* App writes nothing here, so no write lies between an answer to another
\* client and a later answer to the App, nor before the first request of
\* another client); an answer given after a createFeedback completed counts
\* the new entry.  The App shows the answer it received.
C17_AnalyticsDerived ==
    [][ /\ \A m \in net, n \in net' :
              (m.kind = "analytics" /\ AnswerTo(m, n)) =>
                 /\ n.resp.ok
                 /\ n.resp.data = ComputeAnalytics(foodStore, feedbackStore, m.query)
                 /\ foodStore' = foodStore /\ feedbackStore' = feedbackStore
                 /\ (OtherAnalytics /\ otherClient.query = m.query) =>
                       n.resp.data = otherClient.resp.data
                 /\ (OtherGaveFeedback /\ m.query = <<>>) =>
                       /\ otherClient.resp.data \in SeqToSet(feedbackStore)
                       /\ chartTotal(n.resp.data.rating_distribution) = Len(feedbackStore)
                       /\ n.resp.data.rating_distribution[StringOf(otherClient.resp.data.rating)]
                             = RatedCount(feedbackStore, otherClient.resp.data.rating)
        /\ (otherClient' # otherClient /\ otherClient'.kind = "analytics") =>
              /\ otherClient'.resp.data
                    = ComputeAnalytics(foodStore, feedbackStore, otherClient'.query)
              /\ foodStore' = foodStore /\ feedbackStore' = feedbackStore
              /\ others = 0 =>
                    \A m \in net :
                       (m.kind = "analytics" /\ m.st = "done" /\ m.by = "backend"
                          /\ m.query = otherClient'.query) =>
                          m.resp.data = otherClient'.resp.data
        /\ \A m \in net \ net' :
              (m.kind = "analytics" /\ m.st = "done" /\ m.by = "backend") =>
                 analytics' = [top_rated |-> m.resp.data.top_rated,
                               rating_distribution |-> m.resp.data.rating_distribution]
      ]_vars

\* A student gave a second feedback for Rice, rating 4 after a 5, and the
\* dashboard shows Rice with count 2 and mean 9/2.
C17_Witness ==
    /\ OtherGaveFeedback
    /\ Len(feedbackStore) = 2
    /\ analytics.top_rated
          = << [food_name |-> "Rice", avg_rating |-> [num |-> 9, den |-> 2], count |-> 2] >>
    /\ analytics.rating_distribution["4"] = 1

\* Two analytics answers under one filter with no write between them: one to
\* the App, one to another client.
TwoCallsAnswered ==
    /\ OtherAnalytics
    /\ \E m \in net : /\ m.kind = "analytics" /\ m.st = "done" /\ m.by = "backend"
                      /\ m.query = otherClient.query
                      /\ m.resp.data = otherClient.resp.data
                      /\ m.resp.data.top_rated # <<>>

\* The list endpoint of the entity an export is about.
ListKindOf(kind) == IF kind \in FoodExports THEN "listFood" ELSE "listFeedback"

\* C18: an export has as many data rows as the list of its entity returns
\* under the identical filter; the App builds the export links and its list
\* requests from the same filters, through queryString.
C18_ExportRowCount ==
    [][ /\ \A m \in net, n \in net' :
              (m.kind \in ExportKinds /\ AnswerTo(m, n) /\ m.cookie.role = "admin") =>
                 /\ n.resp.ok
                 /\ Len(n.resp.data.rows) = Len(RowsFor(ListKindOf(m.kind), m.query))
        /\ \A n \in net' \ net :
              (n.kind \in ExportKinds \cup {"listFood", "listFeedback"} /\ n.st = "sent") =>
                 n.query = queryString(filters')
      ]_vars

\* The admin filters by category lunch: the list shows one of the two items,
\* and the food export opened then has one data row.
C18_Witness ==
    /\ filterCategory = "lunch"
    /\ Len(foodStore) = 2 /\ Len(items) = 1
    /\ \E m \in net :
          /\ m.kind = "exportFoodCsv" /\ m.st = "done" /\ m.by = "backend"
          /\ m.query = [category |-> "lunch"]
          /\ m.resp.ok /\ Len(m.resp.data.rows) = Len(items)

OtherExported ==
    /\ OtherAnswered /\ otherClient.kind \in ExportKinds
    /\ otherClient.kind \in FoodExports \/ otherClient.cookie.role = "admin"

\* The fields of the record rec that the header names, in the header's order.
FieldsOf(rec, header) == [i \in 1..Len(header) |-> rec[header[i]]]

\* C19: an export changes no stored record; its rows are the rows the list of
\* its entity returns under the same filter, each once and in the list's
\* order, whether CSV or PDF, so that two exports with one filter and no write
\* between them have the same rows in the same order; only the generation
\* time is the export's own.
C19_ExportReadOnly ==
    /\ (OtherAnswered /\ otherClient.kind \in ExportKinds) => ~otherClient.changed
    /\ OtherExported =>
          LET data   == otherClient.resp.data
              listed == RowsFor(ListKindOf(otherClient.kind), otherClient.query)
          IN  /\ otherClient.resp.ok
              /\ data.header = (IF otherClient.kind \in FoodExports
                                THEN <<"name", "category", "quantity", "created_at">>
                                ELSE <<"student_name", "food_item_name", "rating",
                                       "message", "created_at">>)
              /\ Len(data.rows) = Len(listed)
              /\ \A i \in 1..Len(listed) : data.rows[i] = FieldsOf(listed[i], data.header)
              /\ [x \in DOMAIN data \ {"generated"} |-> data[x]]
                    = [header |-> data.header,
                       rows |-> [i \in 1..Len(listed) |-> FieldsOf(listed[i], data.header)]]

\* An admin's PDF export of the feedback about Rice: three rows, in the order
\* of the list, and the stores as they were.
C19_Witness ==
    /\ OtherExported /\ otherClient.kind = "exportFeedbackPdf"
    /\ otherClient.query = [search |-> "ri"]
    /\ ~otherClient.changed
    /\ Len(feedbackStore) = 5
    /\ [i \in 1..Len(otherClient.resp.data.rows) |-> otherClient.resp.data.rows[i][3]]
          = <<5, 5, 3>>

\* The CSV export of the same feedback has the same rows.
CsvExportAnswered ==
    /\ OtherExported /\ otherClient.kind = "exportFeedbackCsv"
    /\ otherClient.query = [search |-> "ri"]
    /\ Len(feedbackStore) = 5
    /\ otherClient.resp.data.rows
          = FeedbackRows(foodStore, feedbackStore, [search |-> "ri"])
    /\ Len(otherClient.resp.data.rows) = 3

\* The request m ended in an error: fetch rejected, or the response has an
\* error status.
EndedInError(m) == m.st = "failed" \/ (m.st = "done" /\ ~m.resp.ok)

StoresKept == foodStore' = foodStore /\ feedbackStore' = feedbackStore

ErrorKinds == {"ValidationError", "AuthError", "Forbidden", "NotFound"}

NotFoundAnswered ==
    /\ OtherAnswered /\ otherClient.kind = "createFeedback"
    /\ otherClient.resp = ErrorResp(404, "NotFound")
    /\ feedbackStore = <<>>

\* The sequence before is kept, record by record, at the front of after.
KeptIn(before, after) ==
    /\ Len(before) <= Len(after)
    /\ \A i \in 1..Len(before) : after[i] = before[i]

\* C21: the stored food items and feedback entries are append-only: no step
\* changes a field of a stored record, its creation time included, or removes
\* a record; a step adds at most one record, after the ones stored before.
C21_AppendOnly ==
    [][ /\ KeptIn(foodStore, foodStore')
        /\ KeptIn(feedbackStore, feedbackStore')
        /\ Len(foodStore') + Len(feedbackStore') <= Len(foodStore) + Len(feedbackStore) + 1
      ]_vars

\* Two items of one name were created one after the other: both are stored,
\* the first as it was created.
C21_Witness ==
    /\ Len(foodStore) = 2
    /\ foodStore[1].name = foodStore[2].name
    /\ foodStore[1].id # foodStore[2].id
    /\ foodStore[1].created_at < foodStore[2].created_at

\* ---- requests that fail: every request of the App can be answered, be
\* rejected by the backend, get a response that is not the backend's, or
\* never get one ----
NextFaults ==
    \/ \E m \in net : Serve(m)
    \/ \E m \in net : Fault(m)
    \/ \E in \in {StudentLogin, AdminLogin, BadLogin} : HandleLoginStart(in[1], in[2])
    \/ \E m \in net : HandleLoginFinish(m)
    \/ RefreshStudent
    \/ RefreshAdmin
    \/ \E m \in net : LoadItemsFinish(m)
    \/ \E m \in net : LoadFeedbacksFinish(m)
    \/ \E m \in net : LoadAnalyticsFinish(m)
    \/ HandleSubmitStart("Dal", "morning", "1")
    \/ \E m \in net : HandleSubmitFinish(m)
    \/ HandleFeedbackSubmitStart("tasty", "5", "")
    \/ \E m \in net : HandleFeedbackSubmitFinish(m)

SpecFaults == Init /\ [][NextFaults]_vars

\* The requests a step sends.
Sent == {m \in net' : m.st = "sent"} \ net
SentOf(kind) == {m \in Sent : m.kind = kind}

\* The step handles the end of request m (its await returns or throws).
Settles(m) == m \in net /\ m.st # "sent" /\ m \notin net'

\* The request ended without the success its handler goes on from.
Failed(m) ==
    CASE m.kind = "login" -> handleLoginThrows(m) # ""
      [] m.kind = "listFood" -> loadItemsThrows(m) # ""
      [] m.kind = "listFeedback" -> loadFeedbacksThrows(m) # ""
      [] m.kind = "analytics" -> loadAnalyticsThrows(m) # ""
      [] m.kind = "createFood" -> handleSubmitThrows(m) # ""
      [] m.kind = "createFeedback" -> handleFeedbackSubmitThrows(m) # ""
      [] OTHER -> FALSE

\* C22: there are no automatic retries.  A login, a create-item and a
\* submit-feedback send exactly one request each, a load at most one request
\* of each list; a step in which the user does nothing sends a request only
\* when a login has just made the role admin (the two loads of the dashboard,
\* once each); and the step that handles a failed request sends nothing.
C22_NoRetry ==
    [][ /\ \A k \in {"login", "listFood", "listFeedback", "analytics",
                     "createFood", "createFeedback"} : Cardinality(SentOf(k)) <= 1
        /\ (loginLoading' /\ ~loginLoading) =>
              Cardinality(Sent) = 1 /\ Cardinality(SentOf("login")) = 1
        /\ (submitting' /\ ~submitting) =>
              Cardinality(Sent) = 1 /\ Cardinality(SentOf("createFood")) = 1
        /\ (feedbackSubmitting' /\ ~feedbackSubmitting) =>
              Cardinality(Sent) = 1 /\ Cardinality(SentOf("createFeedback")) = 1
        /\ (clicks' = clicks /\ Sent # {}) =>
              /\ role # "admin" /\ role' = "admin"
              /\ \A m \in Sent : m.kind \in {"listFeedback", "analytics"}
        /\ \A m \in net : (Settles(m) /\ Failed(m)) => Sent = {}
      ]_vars

\* A load has failed and was handled: its error is shown, nothing is in
\* flight, and the user has not acted since.
C22_Witness ==
    /\ error = FetchFailed
    /\ ~loading
    /\ net = {}
    /\ clicks = 0

\* The message of the App's earlier revision for a fetch that was rejected:
\* if (err instanceof TypeError) setError('Cannot reach backend API. ...')
CannotReach == "Cannot reach backend API. Start Django server on http://localhost:8000."

\* The message the step that handles request m shows for it.
ShownFor(m) ==
    CASE m.kind = "login" -> loginError'
      [] m.kind = "createFeedback" -> feedbackStatus'
      [] OTHER -> error'

\* The generic message of each endpoint for a response that is not ok.
Fallback(m) ==
    CASE m.kind = "login" -> loginFallback(m.resp.status)
      [] m.kind = "listFood" -> "Unable to load food items."
      [] m.kind = "listFeedback" -> "Unable to load feedback."
      [] m.kind = "analytics" -> "Unable to load analytics."
      [] m.kind = "createFood" -> "Unable to create item."
      [] m.kind = "createFeedback" -> "Unable to submit feedback."

\* C23, the part about responses: for a response that is not ok the message
\* shown is the error of the body when the body has one, and the endpoint's
\* generic message otherwise.
C23_ServerMessageElseFallback ==
    [][ \A m \in net :
          (Settles(m) /\ m.st = "done" /\ ~m.resp.ok) =>
              ShownFor(m) = IF "error" \in DOMAIN m.resp.data
                            THEN m.resp.data.error ELSE Fallback(m)
      ]_vars

\* The messages the App words itself.
AppMessages ==
    { CannotReach, "Unexpected error.", "Unexpected login error.",
      "Unable to load feedback list.", "Backend returned an invalid response.",
      "Invalid analytics response.", "Invalid login response from backend." }
    \cup {Fallback([kind |-> k, resp |-> [status |-> s]]) :
            k \in {"login", "listFood", "listFeedback", "analytics",
                   "createFood", "createFeedback"}, s \in {404, 502}}

\* C23, the part about transport failures: for a request whose fetch was
\* rejected the message shown is a generic message of the App that asks to
\* try again.
C23_TransportFailureGeneric ==
    [][ \A m \in net :
          (Settles(m) /\ m.st = "failed") => ShownFor(m) \in AppMessages
      ]_vars

\* ---- Food History (admin view) ----
\* new Date(created_at).getTime(): the milliseconds of a creation time, the
\* model's clock ticking once a second.
getTime(createdAt) == 1000 * createdAt

\* One element put into a sequence that is in the comparator's order, after
\* the elements that do not come after it (Array.prototype.sort is stable).
InsertByTime(sorted, x) ==
    LET before == {i \in 1..Len(sorted) :
                      getTime(x.created_at) - getTime(sorted[i].created_at) <= 0}
        n == Cardinality(before)
    IN  SubSeq(sorted, 1, n) \o <<x>> \o SubSeq(sorted, n + 1, Len(sorted))

RECURSIVE SortByTime(_)
SortByTime(seq) ==
    IF seq = <<>> THEN <<>>
    ELSE InsertByTime(SortByTime(SubSeq(seq, 1, Len(seq) - 1)), seq[Len(seq)])

\* Variant: the history with the oldest item first.
sortedHistoryOldestFirst ==
    LET s == SortByTime(items) IN [i \in 1..Len(s) |-> s[Len(s) + 1 - i]]

\* const sortedHistory = useMemo(() => [...items].sort((a, b) =>
\*     new Date(b.created_at).getTime() - new Date(a.created_at).getTime()), [items])
sortedHistory == SortByTime(items)

Count(seq, x) == Cardinality({i \in 1..Len(seq) : seq[i] = x})

\* C24: the history is a permutation of items in which no entry is followed
\* by a newer one; it is computed from a copy, so items changes only where a
\* handler sets it: to the list a load returned or with a created item put
\* in front.
C24_SortedHistory ==
    /\ [](/\ Len(sortedHistory) = Len(items)
          /\ \A i \in 1..Len(items) : Count(sortedHistory, items[i]) = Count(items, items[i])
          /\ \A i, j \in 1..Len(sortedHistory) :
                i < j => sortedHistory[i].created_at >= sortedHistory[j].created_at)
    /\ [][ items' # items =>
             \E m \in net : /\ Settles(m)
                            /\ \/ items' = itemsAfterLoad(m.resp.data)
                               \/ items' = itemsAfterSubmit(m)
         ]_vars

\* Two items are shown, loaded oldest first: the history has them in the
\* other order.
C24_Witness ==
    /\ Len(items) = 2
    /\ items[1].created_at < items[2].created_at
    /\ sortedHistory = <<items[2], items[1]>>

\* C25: items never has two entries of one id, whatever the order in which
\* the responses of a create and of the list loads in flight arrive.
C25_UniqueIds ==
    \A i, j \in 1..Len(items) : i # j => items[i].id # items[j].id

\* ---- the admin at work: filters and the item form ----
\* The admin has logged in and the dashboard has loaded, in front of a
\* backend that holds the records st: the state HandleLoginStart, Serve,
\* HandleLoginFinish and the three load steps lead to from InitStored(st).
AdminLoaded(st) ==
    /\ foodStore = st.food /\ feedbackStore = st.feedback
    /\ clock = Len(st.food) + Len(st.feedback)
    /\ audit = MakeAudit(st.food, st.feedback)
    /\ cookie = AdminSession
    /\ items = itemsAfterLoad([items |-> ListFoodItems(st.food, <<>>)])
    /\ feedbacks = ListFeedback(st.food, st.feedback, <<>>)
    /\ analytics = analyticsAfterLoad(ComputeAnalytics(st.food, st.feedback, <<>>))
    /\ name = "" /\ category = "morning" /\ quantity = "1"
    /\ feedbackMessage = "" /\ feedbackRating = "5" /\ feedbackFoodId = ""
    /\ filterSearch = "" /\ filterCategory = "" /\ filterFrom = "" /\ filterTo = ""
    /\ loading = FALSE /\ submitting = FALSE /\ feedbackSubmitting = FALSE
    /\ error = "" /\ feedbackStatus = ""
    /\ role = "admin" /\ username = AdminLogin[1] /\ password = "" /\ currentUser = "admin"
    /\ loginError = "" /\ loginLoading = FALSE
    /\ net = {}

InitAdmin ==
    /\ AdminLoaded(StoreSmall)
    /\ otherClient = NullData
    /\ clicks = 0 /\ others = 0

NextAdmin ==
    \/ \E m \in net : Serve(m)
    \/ \E in \in {<<"filterCategory", "lunch">>, <<"filterCategory", "dinner">>,
                 <<"filterSearch", "da">>} : SetFilter(in[1], in[2])
    \/ HandleSubmitStart("Dal", "morning", "1")
    \/ \E m \in net : HandleSubmitFinish(m)
    \/ HandleLogout
    \/ \E m \in net : LoadItemsFinish(m)
    \/ \E m \in net : LoadFeedbacksFinish(m)
    \/ \E m \in net : LoadAnalyticsFinish(m)

SpecAdmin == InitAdmin /\ [][NextAdmin]_vars

\* The dashboard as loaded after the login is a state of the App.
AdminLoadedReached == AdminLoaded(StoreSmall)

\* C26: when the filters have changed and every request has completed, the
\* lists and the analytics shown are the responses to the requests for the
\* filter values now set, in whatever order the responses arrived (stated for
\* the states in which the store has not changed since the first request).
C26_LatestFilterWins ==
    ( /\ net = {}
      /\ role = "admin"
      /\ foodStore = StoreSmall.food /\ feedbackStore = StoreSmall.feedback )
    => /\ items = itemsAfterLoad([items |-> ListFoodItems(foodStore, queryString(filters))])
       /\ feedbacks = ListFeedback(foodStore, feedbackStore, queryString(filters))
       /\ analytics = analyticsAfterLoad(ComputeAnalytics(foodStore, feedbackStore,
                                                            queryString(filters)))

\* C27: loading is true in every state in which a loadItems request is in
\* flight, also when several loadItems calls overlap.
C27_LoadingWhileInFlight ==
    (\E m \in net : m.kind = "listFood" /\ m.st = "sent") => loading

\* ---- the same, with progress: every fetch settles (the backend answers,
\* or the transport gives up), and the event loop runs the continuation of
\* every await that has settled ----
SpecFaultsFair ==
    /\ Init /\ [][NextFaults]_vars
    /\ WF_vars(\E m \in net : Serve(m) \/ Fault(m))
    /\ WF_vars(\E m \in net : HandleLoginFinish(m))
    /\ WF_vars(\E m \in net : LoadItemsFinish(m))
    /\ WF_vars(\E m \in net : HandleSubmitFinish(m))
    /\ WF_vars(\E m \in net : HandleFeedbackSubmitFinish(m))

\* C28: every login, load of the items, create-item and submit-feedback that
\* has started sets its in-progress flag back to false, whatever its fetch
\* ends in: a success, an error status, an empty or unparsable body, or a
\* transport failure.
C28_FlagsClear ==
    /\ loginLoading ~> ~loginLoading
    /\ loading ~> ~loading
    /\ submitting ~> ~submitting
    /\ feedbackSubmitting ~> ~feedbackSubmitting

\* A create-item whose fetch was rejected has been handled: the form is kept,
\* the error is shown and the button is enabled again.
C28_Witness ==
    /\ name = "Dal"
    /\ error = FetchFailed
    /\ ~submitting
    /\ ~\E m \in net : m.kind = "createFood"

\* A filter is set and no load of the items is in flight.
FilterSettled(f, msgs) ==
    /\ queryString(f) # <<>>
    /\ ~\E m \in msgs : m.kind = "listFood"

AllMatch(its, f) == \A i \in 1..Len(its) : FoodMatches(its[i], queryString(f))

\* C29: while a filter is set and no load is in flight, every entry of items
\* satisfies the filter; the step that handles a successful create from the
\* item form keeps it so.
C29_ItemsMatchFilter ==
    [][ \A m \in net :
          ( /\ Settles(m) /\ m.kind = "createFood" /\ ~Failed(m)
            /\ FilterSettled(filters, net)
            /\ AllMatch(items, filters) )
          => AllMatch(items', filters')
      ]_vars

\* C30: whenever the role is not admin the client holds no feedback entries
\* and no analytics: a logout empties both, and a loadFeedbacks or
\* loadAnalytics response that arrives after it does not fill them again.
C30_NoAdminDataAfterLogout ==
    role # "admin" =>
        /\ feedbacks = <<>>
        /\ analytics = [top_rated |-> <<>>, rating_distribution |-> <<>>]
====
